---- MODULE Spec2Model ----
(***************************************************************************)
(* Host-side driver of the STM8 two-stage bootloader (scripts/stm8loader.py *)
(* and scripts/stm8_bootloader_test.py): frame codec, command engine and    *)
(* the boot1 -> boot2 handshake and stage transfer.                         *)
(*                                                                          *)
(* Bytes are naturals in 0..255, byte strings are sequences of bytes.       *)
(* Three specifications share the variables:                                *)
(*   SpecCodec   the pure frame codec applied to bounded inputs             *)
(*   Spec        the command engine (check_boot2, read/write/go/exec/info)  *)
(*   SpecUpload  upload_boot2 with the target's byte stream interleaved     *)
(***************************************************************************)
EXTENDS Naturals, Integers, Sequences, FiniteSets, TLC

VARIABLES
    serial,     \* self.serial: [open |-> BOOLEAN, baud |-> Nat] (None = not open)
    in_boot2,   \* self.in_boot2
    reset_pin,  \* self.reset_pin
    rx,         \* bytes waiting in the OS input buffer of the endpoint (in_waiting)
    trace,      \* I/O events of the running operation, in program order
    pc,         \* control location of the running operation
    call,       \* the running operation and its arguments
    loc,        \* local variables of the running operation
    outcome,    \* return value / raised error of the last finished operation
    env         \* the target side: bytes it has yet to send; in a session of the
                \* command engine also after_go: a Go command went to the target
                \* and check_boot2 has not run since

vars == <<serial, in_boot2, reset_pin, rx, trace, pc, call, loc, outcome, env>>

(***************************************************************************)
(* Protocol constants, stm8loader.py lines 17-32                            *)
(***************************************************************************)
CMD_READ == 241
CMD_WRITE == 242
CMD_GO == 243
CMD_EXEC == 244
CMD_HEADER == 90
ACK_HEADER == 165
HANDSHAKE_ADDR == 32768
HANDSHAKE_SIZE == 8
BOOT1_BAUDRATE == 9600
BOOT2_BAUDRATE == 128000
FRAME_SIZE == 70
MAX_DATA_SIZE == 64

(***************************************************************************)
(* Bounds of the model                                                      *)
(***************************************************************************)
MaxPayloadLen == 2     \* exhaustive payloads over ByteSample up to this length
MaxChunks == 3         \* transfers span up to MaxChunks full chunks plus a rest
MaxStreamLen == 3      \* bytes the target emits during one upload
MaxImageLen == 2       \* short boot2 images (the 128-byte image is always there)
MaxReadSize == 2       \* bytes asked of read_with_timeout
MaxTimeout == 2        \* timeout of read_with_timeout, in milliseconds
MaxBlocks == 2         \* 128-byte blocks of the image of the test uploader

Min(a, b) == IF a < b THEN a ELSE b

\* A non-periodic byte pattern of length n (no palindromes, no repeats nearby).
Pattern(n) == [i \in 1..n |-> (i * 37 + 11) % 256]

SeqsUpTo(S, n) == UNION {[1..k -> S] : k \in 0..n}

\* Python slices: s[i:j] and s[-k:] on 0-based positions, as 1-based sequences.
Slice(s, i, j) == SubSeq(s, i + 1, Min(j, Len(s)))
LastN(s, k) == SubSeq(s, IF Len(s) > k THEN Len(s) - k + 1 ELSE 1, Len(s))

(***************************************************************************)
(* Frame codec                                                              *)
(***************************************************************************)
\* Python's ^ on two bytes: bit i of the result is the sum of the bits i mod 2.
XorBit(a, b, w) == (((a \div w) + (b \div w)) % 2) * w

Xor(a, b) ==
    XorBit(a, b, 1) + XorBit(a, b, 2) + XorBit(a, b, 4) + XorBit(a, b, 8)
    + XorBit(a, b, 16) + XorBit(a, b, 32) + XorBit(a, b, 64) + XorBit(a, b, 128)

\* The XOR of data[lo..hi], 0 for an empty range.  The range is folded by
\* halves: XOR is associative, so the value is that of the left-to-right loop
\* and the evaluation stays shallow on 70-byte buffers.
RECURSIVE XorRange(_, _, _)
XorRange(data, lo, hi) ==
    IF lo > hi THEN 0
    ELSE IF lo = hi THEN data[lo]
    ELSE LET mid == (lo + hi) \div 2
             left == XorRange(data, lo, mid)
             right == XorRange(data, mid + 1, hi)
         IN Xor(left, right)

\* checksum = 0; for byte in data: checksum ^= byte
calculate_checksum(data) == XorRange(data, 1, Len(data))

Ok(v) == [status |-> "ok", value |-> v, err |-> ""]
Err(e) == [status |-> "error", value |-> <<>>, err |-> e]
NoOutcome == [status |-> "none", value |-> <<>>, err |-> ""]

\* bytearray(FRAME_SIZE) with the header fields, the payload and the checksum
\* stored in place (0-based offset k is position k+1).
FrameBufferOf(cmd, byte2, byte3, data) ==
    LET n == Len(data)
        filled == [k \in 1..FRAME_SIZE |->
                     IF k = 1 THEN CMD_HEADER
                     ELSE IF k = 2 THEN cmd
                     ELSE IF k = 3 THEN byte2
                     ELSE IF k = 4 THEN byte3
                     ELSE IF k = 5 THEN n
                     ELSE IF k <= 5 + n THEN data[k - 5]
                     ELSE 0]
    IN [filled EXCEPT ![5 + n + 1] = calculate_checksum(SubSeq(filled, 1, 5 + n))]

\* frame[2] = (addr >> 8) & 0xFF; frame[3] = addr & 0xFF
FrameBuffer(cmd, addr, data) ==
    FrameBufferOf(cmd, (addr \div 256) % 256, addr % 256, data)

\* A buggy variant: the address is stored low byte first.
create_command_frame_little_endian(cmd, addr, data) ==
    IF Len(data) > MAX_DATA_SIZE THEN Err("PayloadTooLarge")
    ELSE Ok(SubSeq(FrameBufferOf(cmd, addr % 256, (addr \div 256) % 256, data),
                   1, 5 + Len(data) + 1))

\* A buggy variant: the whole 70-byte buffer is returned.
create_command_frame_whole_buffer(cmd, addr, data) ==
    IF Len(data) > MAX_DATA_SIZE THEN Err("PayloadTooLarge")
    ELSE Ok(FrameBuffer(cmd, addr, data))

\* A buggy variant: a payload that is too long is cut to 64 bytes.
create_command_frame_truncating(cmd, addr, data) ==
    LET cut == SubSeq(data, 1, Min(Len(data), MAX_DATA_SIZE))
    IN Ok(SubSeq(FrameBuffer(cmd, addr, cut), 1, 5 + Len(cut) + 1))

create_command_frame(cmd, addr, data) ==
    IF Len(data) > MAX_DATA_SIZE THEN Err("PayloadTooLarge")
    ELSE Ok(SubSeq(FrameBuffer(cmd, addr, data), 1, 5 + Len(data) + 1))

Response(cmd, addr, data) == [cmd |-> cmd, addr |-> addr, data |-> data]

\* A buggy variant: the length check comes before the checksum check.
parse_response_frame_length_first(frame) ==
    IF Len(frame) < 6 THEN Err("FrameTooShort")
    ELSE IF frame[1] # ACK_HEADER THEN Err("BadHeader")
    ELSE IF Len(frame) < 5 + frame[5] + 1 THEN Err("LengthMismatch")
    ELSE IF frame[Len(frame)] # calculate_checksum(SubSeq(frame, 1, Len(frame) - 1))
         THEN Err("ChecksumMismatch")
    ELSE Ok(Response(frame[2], frame[3] * 256 + frame[4],
                     Slice(frame, 5, 5 + frame[5])))

parse_response_frame(frame) ==
    IF Len(frame) < 6 THEN Err("FrameTooShort")
    ELSE IF frame[1] # ACK_HEADER THEN Err("BadHeader")
    ELSE IF frame[Len(frame)] # calculate_checksum(SubSeq(frame, 1, Len(frame) - 1))
         THEN Err("ChecksumMismatch")
    ELSE IF Len(frame) < 5 + frame[5] + 1 THEN Err("LengthMismatch")
    ELSE Ok(Response(frame[2], frame[3] * 256 + frame[4],
                     Slice(frame, 5, 5 + frame[5])))

(***************************************************************************)
(* The XOR of section 3 of the specification, for the statements below     *)
(***************************************************************************)
Bit(x, i) == (x \div (2 ^ i)) % 2

\* XOR of a byte string stated bit by bit: bit i of the result is the parity
\* of the number of bytes that have bit i set.
ParityOfBit(s, i) == Cardinality({k \in 1..Len(s) : Bit(s[k], i) = 1}) % 2

XorOfBytes(s) ==
    ParityOfBit(s, 0) + 2 * ParityOfBit(s, 1) + 4 * ParityOfBit(s, 2)
    + 8 * ParityOfBit(s, 3) + 16 * ParityOfBit(s, 4) + 32 * ParityOfBit(s, 5)
    + 64 * ParityOfBit(s, 6) + 128 * ParityOfBit(s, 7)

(***************************************************************************)
(* I/O events.  Every operation on the endpoint (and the read of the image  *)
(* file) is appended to trace in program order: op is "open", "close",      *)
(* "flush" (reset_input_buffer), "write", "read", "rts", "dtr", "sleep",    *)
(* "file" (the image file was read, data is its content) or "nofile" (it    *)
(* was not found); by is the method that performs it.                       *)
(***************************************************************************)
Ev(op, by, data) == [op |-> op, by |-> by, data |-> data]

ClosedPort == [open |-> FALSE, baud |-> 0]
OpenPort(baud) == [open |-> TRUE, baud |-> baud]

\* close(): the endpoint is released when one is open.
close_port(port) ==
    IF port.open THEN [serial |-> ClosedPort, events |-> <<Ev("close", "close", <<>>)>>]
    ELSE [serial |-> port, events |-> <<>>]

\* A buggy variant: a new endpoint is created whether or not one is open,
\* the old one being left open.
open_port_unchecked(port, baud) ==
    [serial |-> OpenPort(baud), events |-> <<Ev("open", "open", <<baud>>)>>]

\* open(baudrate): a new endpoint is created when none is open; the port is
\* taken to be there (serial.Serial does not raise).
open_port(port, baud) ==
    IF ~port.open
    THEN [serial |-> OpenPort(baud), events |-> <<Ev("open", "open", <<baud>>)>>]
    ELSE [serial |-> port, events |-> <<>>]

(***************************************************************************)
(* Command engine                                                           *)
(***************************************************************************)
\* read_with_timeout(size, timeout), given the bytes that arrive before the
\* timeout: the first size of them, in arrival order.
read_with_timeout(size, arriving) == SubSeq(arriving, 1, Min(size, Len(arriving)))

Exchange(events, result, pending) ==
    [events |-> events, result |-> result, rx |-> pending]

\* A buggy variant: the input buffer is not cleared, bytes received earlier
\* are read as the beginning of the response.
send_command_no_flush(cmd, addr, data, wait_response, arriving) ==
    IF ~serial.open THEN Exchange(<<>>, Err("PortNotOpen"), rx)
    ELSE
        LET frame == create_command_frame(cmd, addr, data)
            response == read_with_timeout(FRAME_SIZE, rx \o arriving)
            left == SubSeq(rx \o arriving, Len(response) + 1, Len(rx \o arriving))
        IN IF frame.status = "error" THEN Exchange(<<>>, frame, rx)
           ELSE IF ~wait_response
                THEN Exchange(<<Ev("write", "send_command", frame.value)>>,
                              NoOutcome, rx \o arriving)
           ELSE Exchange(<<Ev("write", "send_command", frame.value),
                           Ev("read", "send_command", response)>>,
                         IF response = <<>> THEN Err("NoResponse")
                         ELSE parse_response_frame(response),
                         left)

\* send_command(cmd, addr, data, wait_response) when the bytes `arriving`
\* come in after the write and before the timeout.  The result is the parsed
\* response (status "ok"), None (status "none") or the raised error.
send_command(cmd, addr, data, wait_response, arriving) ==
    IF ~serial.open THEN Exchange(<<>>, Err("PortNotOpen"), rx)
    ELSE
        LET flush == Ev("flush", "send_command", <<>>)
            frame == create_command_frame(cmd, addr, data)
            response == read_with_timeout(FRAME_SIZE, arriving)
            left == SubSeq(arriving, Len(response) + 1, Len(arriving))
        IN IF frame.status = "error" THEN Exchange(<<flush>>, frame, <<>>)
           ELSE IF ~wait_response
                THEN Exchange(<<flush, Ev("write", "send_command", frame.value)>>,
                              NoOutcome, arriving)
           ELSE Exchange(<<flush, Ev("write", "send_command", frame.value),
                           Ev("read", "send_command", response)>>,
                         IF response = <<>> THEN Err("NoResponse")
                         ELSE parse_response_frame(response),
                         left)

\* A buggy variant: the length of the payload is not looked at.
check_boot2_accepts_any_length(response) ==
    /\ response.status = "ok"
    /\ response.value.cmd = CMD_READ
    /\ response.value.addr = HANDSHAKE_ADDR

\* The test of check_boot2 on what send_command gave: a parsed response
\* echoing Read and the handshake address with at least 8 bytes of payload;
\* an error raised by send_command is caught and counts as "not in boot2".
check_boot2_accepts(response) ==
    /\ response.status = "ok"
    /\ response.value.cmd = CMD_READ
    /\ response.value.addr = HANDSHAKE_ADDR
    /\ Len(response.value.data) >= HANDSHAKE_SIZE

\* chunk_size = min(remaining, MAX_DATA_SIZE)
ChunkSize(remaining) == Min(remaining, MAX_DATA_SIZE)

\* A buggy variant: the payload length of the response is not compared.
read_chunk_check_no_length(response, current_addr, chunk_size) ==
    IF response.status = "error" THEN response.err
    ELSE IF response.status = "none" THEN "ReadFailed"
    ELSE IF response.value.cmd # CMD_READ \/ response.value.addr # current_addr
         THEN "ReadMismatch"
    ELSE ""

\* The checks of read_memory on the response to one chunk: the error raised
\* ("" when the chunk is accepted).
read_chunk_check(response, current_addr, chunk_size) ==
    IF response.status = "error" THEN response.err
    ELSE IF response.status = "none" THEN "ReadFailed"
    ELSE IF response.value.cmd # CMD_READ \/ response.value.addr # current_addr
         THEN "ReadMismatch"
    ELSE IF Len(response.value.data) # chunk_size THEN "ReadLengthMismatch"
    ELSE ""

\* A buggy variant: the echoed address is not compared.
write_chunk_check_no_addr(response, current_addr) ==
    IF response.status = "error" THEN response.err
    ELSE IF response.status = "none" THEN "WriteFailed"
    ELSE IF response.value.cmd # CMD_WRITE THEN "WriteMismatch"
    ELSE ""

\* The checks of write_memory on the response to one chunk.
write_chunk_check(response, current_addr) ==
    IF response.status = "error" THEN response.err
    ELSE IF response.status = "none" THEN "WriteFailed"
    ELSE IF response.value.cmd # CMD_WRITE \/ response.value.addr # current_addr
         THEN "WriteMismatch"
    ELSE ""

\* A buggy variant: the two fields are taken low byte first.
InfoOf_little_endian(data) ==
    [boot0_address |-> data[4] * 256 + data[3],
     main_program_address |-> data[8] * 256 + data[7],
     raw_data |-> data,
     in_boot2 |-> in_boot2]

\* get_info: the two 16-bit fields of the handshake block.
InfoOf(data) ==
    [boot0_address |-> data[3] * 256 + data[4],
     main_program_address |-> data[7] * 256 + data[8],
     raw_data |-> data,
     in_boot2 |-> in_boot2]

(***************************************************************************)
(* The target (boot2) as the command engine sees it                         *)
(***************************************************************************)
\* Content of the target's memory at a 16-bit address.
MemByte(a) == ((a % 251) * 7 + (a \div 251) + 3) % 256

MemBytes(addr, n) == [i \in 1..n |-> MemByte((addr + i - 1) % 65536)]

RespFrame(h, cmd, addr, payload, ckdelta) ==
    LET body == <<h, cmd, (addr \div 256) % 256, addr % 256, Len(payload) % 256>>
                \o payload
    IN body \o <<Xor(calculate_checksum(body), ckdelta)>>

\* The payload with which boot2 answers a command frame: the memory content
\* for Read, nothing for the others.
AnswerPayload(frame) ==
    IF frame[2] = CMD_READ /\ frame[5] >= 1
    THEN MemBytes(frame[3] * 256 + frame[4], frame[6])
    ELSE <<>>

\* The correct answer of boot2 to a command frame.
TargetAnswer(frame) ==
    RespFrame(ACK_HEADER, frame[2], frame[3] * 256 + frame[4], AnswerPayload(frame), 0)

\* What may arrive before the timeout: the correct answer, an answer echoing
\* another command or address, one with a byte less or more of payload, a
\* corrupted or cut one, one followed by a stray byte, or nothing.
TargetReplies(frame) ==
    LET c == frame[2]
        a == frame[3] * 256 + frame[4]
        p == AnswerPayload(frame)
        good == TargetAnswer(frame)
    IN {good,
        RespFrame(ACK_HEADER, IF c = CMD_READ THEN CMD_WRITE ELSE CMD_READ, a, p, 0),
        RespFrame(ACK_HEADER, c, (a + 1) % 65536, p, 0),
        RespFrame(ACK_HEADER, c, a, SubSeq(p, 1, Len(p) - 1), 0),
        RespFrame(ACK_HEADER, c, a, p \o <<0>>, 0),
        RespFrame(ACK_HEADER, c, a, p, 1),
        RespFrame(CMD_HEADER, c, a, p, 0),
        SubSeq(good, 1, 3),
        good \o <<0>>,
        <<>>}

(***************************************************************************)
(* Spec: the command engine on an endpoint opened at the boot2 baud rate.   *)
(* An operation is called when no other is running (single-threaded        *)
(* caller); read_memory and write_memory advance one chunk exchange at a    *)
(* step, the other operations are one exchange each.                        *)
(***************************************************************************)
MemAddrs == {64, HANDSHAKE_ADDR, 65472}
TransferSizes == {k * MAX_DATA_SIZE + d : k \in 0..MaxChunks, d \in {0, 1, 8, 63}}
ExecCodes == {<<>>, Pattern(2), Pattern(MAX_DATA_SIZE), Pattern(MAX_DATA_SIZE + 1)}

EngineCall(op, addr, size, data) ==
    [op |-> op, addr |-> addr, size |-> size, data |-> data,
     entry |-> [in_boot2 |-> in_boot2, serial |-> serial, stale |-> rx # <<>>]]

Locals(result, remaining, current_addr, offset) ==
    [result |-> result, remaining |-> remaining,
     current_addr |-> current_addr, offset |-> offset]

NoLocals == Locals(<<>>, 0, 0, 0)

NoEngineCall ==
    [op |-> "none", addr |-> 0, size |-> 0, data |-> <<>>,
     entry |-> [in_boot2 |-> FALSE, serial |-> ClosedPort, stale |-> FALSE]]

Idle == pc = "idle"

\* What arrives in answer to a command: replies of the target to the frame
\* when one is written, nothing otherwise.
Arriving(cmd, addr, data) ==
    LET frame == create_command_frame(cmd, addr, data)
    IN IF serial.open /\ frame.status = "ok" THEN TargetReplies(frame.value)
       ELSE {<<>>}

Init ==
    /\ serial = OpenPort(BOOT2_BAUDRATE)
    /\ in_boot2 = FALSE
    /\ reset_pin = "rts+dtr"
    /\ rx = <<>>
    /\ trace = <<>>
    /\ pc = "idle"
    /\ call = NoEngineCall
    /\ loc = NoLocals
    /\ outcome = NoOutcome
    /\ env = [stream |-> <<>>, after_go |-> FALSE]

\* check_boot2(): one Read probe of the handshake block.
CheckBoot2 ==
    /\ Idle
    /\ \E arriving \in Arriving(CMD_READ, HANDSHAKE_ADDR, <<8>>) :
        LET x == send_command(CMD_READ, HANDSHAKE_ADDR, <<8>>, TRUE, arriving)
            live == check_boot2_accepts(x.result)
        IN /\ call' = EngineCall("check_boot2", HANDSHAKE_ADDR, HANDSHAKE_SIZE, <<>>)
           /\ trace' = x.events
           /\ rx' = x.rx
           /\ in_boot2' = live
           /\ outcome' = Ok(live)
           /\ pc' = "done"
           /\ loc' = NoLocals
    /\ env' = [env EXCEPT !.after_go = FALSE]
    /\ UNCHANGED <<serial, reset_pin>>

\* Entry of read_memory(addr, size), also as get_info calls it.
ReadMemoryEnter(op, addr, size) ==
    /\ call' = EngineCall(op, addr, size, <<>>)
    /\ trace' = <<>>
    /\ IF ~in_boot2
       THEN /\ outcome' = Err("NotInBoot2")
            /\ pc' = "done"
            /\ loc' = NoLocals
       ELSE /\ loc' = Locals(<<>>, size, addr, 0)
            /\ IF size > 0
               THEN pc' = "read_memory" /\ outcome' = NoOutcome
               ELSE pc' = "done" /\ outcome' = Ok(<<>>)
    /\ UNCHANGED <<serial, in_boot2, reset_pin, rx, env>>

ReadMemoryCall ==
    /\ Idle
    /\ \E a \in MemAddrs, n \in TransferSizes : ReadMemoryEnter("read_memory", a, n)

\* get_info(): read_memory(HANDSHAKE_ADDR, HANDSHAKE_SIZE) and its decoding.
GetInfoCall ==
    /\ Idle
    /\ ReadMemoryEnter("get_info", HANDSHAKE_ADDR, HANDSHAKE_SIZE)

\* One iteration of the loop of read_memory.
ReadMemoryChunk ==
    /\ pc = "read_memory"
    /\ LET chunk_size == ChunkSize(loc.remaining)
       IN \E arriving \in Arriving(CMD_READ, loc.current_addr, <<chunk_size>>) :
            LET x == send_command(CMD_READ, loc.current_addr, <<chunk_size>>,
                                  TRUE, arriving)
                e == read_chunk_check(x.result, loc.current_addr, chunk_size)
                result == loc.result \o x.result.value.data
                remaining == loc.remaining - chunk_size
            IN /\ trace' = trace \o x.events
               /\ rx' = x.rx
               /\ IF e # ""
                  THEN /\ pc' = "done"
                       /\ outcome' = Err(e)
                       /\ loc' = loc
                  ELSE /\ loc' = Locals(result, remaining,
                                        loc.current_addr + chunk_size, 0)
                       /\ IF remaining > 0
                          THEN pc' = "read_memory" /\ outcome' = outcome
                          ELSE /\ pc' = "done"
                               /\ outcome' = IF call.op = "get_info"
                                             THEN Ok(InfoOf(result))
                                             ELSE Ok(result)
    /\ UNCHANGED <<serial, in_boot2, reset_pin, call, env>>

WriteMemoryCall ==
    /\ Idle
    /\ \E a \in MemAddrs, n \in TransferSizes :
        /\ call' = EngineCall("write_memory", a, n, Pattern(n))
        /\ trace' = <<>>
        /\ IF ~in_boot2
           THEN /\ outcome' = Err("NotInBoot2")
                /\ pc' = "done"
                /\ loc' = NoLocals
           ELSE /\ loc' = Locals(<<>>, n, a, 0)
                /\ IF n > 0
                   THEN pc' = "write_memory" /\ outcome' = NoOutcome
                   ELSE pc' = "done" /\ outcome' = Ok(TRUE)
    /\ UNCHANGED <<serial, in_boot2, reset_pin, rx, env>>

\* One iteration of the loop of write_memory.
WriteMemoryChunk ==
    /\ pc = "write_memory"
    /\ LET chunk_size == ChunkSize(loc.remaining)
           chunk_data == Slice(call.data, loc.offset, loc.offset + chunk_size)
       IN \E arriving \in Arriving(CMD_WRITE, loc.current_addr, chunk_data) :
            LET x == send_command(CMD_WRITE, loc.current_addr, chunk_data,
                                  TRUE, arriving)
                e == write_chunk_check(x.result, loc.current_addr)
                remaining == loc.remaining - chunk_size
            IN /\ trace' = trace \o x.events
               /\ rx' = x.rx
               /\ IF e # ""
                  THEN /\ pc' = "done"
                       /\ outcome' = Err(e)
                       /\ loc' = loc
                  ELSE /\ loc' = Locals(<<>>, remaining,
                                        loc.current_addr + chunk_size,
                                        loc.offset + chunk_size)
                       /\ IF remaining > 0
                          THEN pc' = "write_memory" /\ outcome' = outcome
                          ELSE pc' = "done" /\ outcome' = Ok(TRUE)
    /\ UNCHANGED <<serial, in_boot2, reset_pin, call, env>>

\* A buggy variant: go_execute without the in_boot2 check.
GoExecuteUnguarded ==
    /\ Idle
    /\ \E a \in MemAddrs, arriving \in {<<>>, <<ACK_HEADER>>} :
        LET x == send_command(CMD_GO, a, <<>>, FALSE, arriving)
        IN /\ call' = EngineCall("go_execute", a, 0, <<>>)
           /\ trace' = x.events
           /\ rx' = x.rx
           /\ outcome' = IF x.result.status = "error"
                         THEN Err(x.result.err) ELSE Ok(TRUE)
    /\ pc' = "done"
    /\ loc' = NoLocals
    /\ UNCHANGED <<serial, in_boot2, reset_pin, env>>

\* The events of a command that put its frame on the link.
WritesFrame(events) == \E i \in 1..Len(events) : events[i].op = "write"

\* A buggy variant: go_execute takes the session out of boot2 once the Go
\* command is sent.
GoExecuteLeavesBoot2 ==
    /\ Idle
    /\ \E a \in MemAddrs, arriving \in {<<>>, <<ACK_HEADER>>} :
        LET x == send_command(CMD_GO, a, <<>>, FALSE, arriving)
        IN /\ call' = EngineCall("go_execute", a, 0, <<>>)
           /\ IF ~in_boot2
              THEN trace' = <<>> /\ rx' = rx /\ outcome' = Err("NotInBoot2")
              ELSE /\ trace' = x.events
                   /\ rx' = x.rx
                   /\ outcome' = IF x.result.status = "error"
                                 THEN Err(x.result.err) ELSE Ok(TRUE)
           /\ env' = [env EXCEPT !.after_go = @ \/ (in_boot2 /\ WritesFrame(x.events))]
           /\ in_boot2' = (in_boot2 /\ ~WritesFrame(x.events))
    /\ pc' = "done"
    /\ loc' = NoLocals
    /\ UNCHANGED <<serial, reset_pin>>

\* A buggy variant: go_execute waits for a response to the Go command.
GoExecuteWaitsForResponse ==
    /\ Idle
    /\ \E a \in MemAddrs, arriving \in {<<>>, <<ACK_HEADER>>} :
        LET x == send_command(CMD_GO, a, <<>>, TRUE, arriving)
        IN /\ call' = EngineCall("go_execute", a, 0, <<>>)
           /\ IF ~in_boot2
              THEN trace' = <<>> /\ rx' = rx /\ outcome' = Err("NotInBoot2")
              ELSE /\ trace' = x.events
                   /\ rx' = x.rx
                   /\ outcome' = IF x.result.status = "error"
                                 THEN Err(x.result.err) ELSE Ok(TRUE)
           /\ env' = [env EXCEPT !.after_go = @ \/ (in_boot2 /\ WritesFrame(x.events))]
    /\ pc' = "done"
    /\ loc' = NoLocals
    /\ UNCHANGED <<serial, in_boot2, reset_pin>>

\* go_execute(addr): a Go command, no response awaited.
GoExecute ==
    /\ Idle
    /\ \E a \in MemAddrs, arriving \in {<<>>, <<ACK_HEADER>>} :
        LET x == send_command(CMD_GO, a, <<>>, FALSE, arriving)
        IN /\ call' = EngineCall("go_execute", a, 0, <<>>)
           /\ IF ~in_boot2
              THEN trace' = <<>> /\ rx' = rx /\ outcome' = Err("NotInBoot2")
              ELSE /\ trace' = x.events
                   /\ rx' = x.rx
                   /\ outcome' = IF x.result.status = "error"
                                 THEN Err(x.result.err) ELSE Ok(TRUE)
           /\ env' = [env EXCEPT !.after_go = @ \/ (in_boot2 /\ WritesFrame(x.events))]
    /\ pc' = "done"
    /\ loc' = NoLocals
    /\ UNCHANGED <<serial, in_boot2, reset_pin>>

\* A buggy variant: exec_machine_code does not wait for the response.
ExecMachineCodeNoWait ==
    /\ Idle
    /\ \E a \in {0, HANDSHAKE_ADDR}, code \in ExecCodes :
        \E arriving \in Arriving(CMD_EXEC, a, code) :
            LET x == send_command(CMD_EXEC, a, code, FALSE, arriving)
            IN /\ call' = EngineCall("exec_machine_code", a, Len(code), code)
               /\ IF ~in_boot2
                  THEN trace' = <<>> /\ rx' = rx /\ outcome' = Err("NotInBoot2")
                  ELSE IF Len(code) > MAX_DATA_SIZE
                  THEN trace' = <<>> /\ rx' = rx /\ outcome' = Err("PayloadTooLarge")
                  ELSE /\ trace' = x.events
                       /\ rx' = x.rx
                       /\ outcome' = IF x.result.status = "error"
                                     THEN Err(x.result.err) ELSE Ok(TRUE)
    /\ pc' = "done"
    /\ loc' = NoLocals
    /\ UNCHANGED <<serial, in_boot2, reset_pin, env>>

\* exec_machine_code(addr, machine_code): an Exec command and its response.
ExecMachineCode ==
    /\ Idle
    /\ \E a \in {0, HANDSHAKE_ADDR}, code \in ExecCodes :
        \E arriving \in Arriving(CMD_EXEC, a, code) :
            LET x == send_command(CMD_EXEC, a, code, TRUE, arriving)
            IN /\ call' = EngineCall("exec_machine_code", a, Len(code), code)
               /\ IF ~in_boot2
                  THEN trace' = <<>> /\ rx' = rx /\ outcome' = Err("NotInBoot2")
                  ELSE IF Len(code) > MAX_DATA_SIZE
                  THEN trace' = <<>> /\ rx' = rx /\ outcome' = Err("PayloadTooLarge")
                  ELSE /\ trace' = x.events
                       /\ rx' = x.rx
                       /\ outcome' = IF x.result.status = "error"
                                     THEN Err(x.result.err) ELSE Ok(TRUE)
    /\ pc' = "done"
    /\ loc' = NoLocals
    /\ UNCHANGED <<serial, in_boot2, reset_pin, env>>

\* send_command(cmd, addr, data, wait_response) called directly, with a
\* payload of the greatest length or one byte more.
SendCommandCall ==
    /\ Idle
    /\ \E data \in {Pattern(MAX_DATA_SIZE), Pattern(MAX_DATA_SIZE + 1)},
          wait_response \in BOOLEAN :
        \E arriving \in {<<>>, RespFrame(ACK_HEADER, CMD_WRITE, HANDSHAKE_ADDR, <<>>, 0)} :
            LET x == send_command(CMD_WRITE, HANDSHAKE_ADDR, data, wait_response, arriving)
            IN /\ call' = EngineCall("send_command", HANDSHAKE_ADDR, Len(data), data)
               /\ trace' = x.events
               /\ rx' = x.rx
               /\ outcome' = x.result
    /\ pc' = "done"
    /\ loc' = NoLocals
    /\ UNCHANGED <<serial, in_boot2, reset_pin, env>>

BaudRates == {BOOT1_BAUDRATE, BOOT2_BAUDRATE}

SessionCall(op, baud) ==
    [op |-> op, baud |-> baud,
     entry |-> [in_boot2 |-> in_boot2, serial |-> serial]]

\* open(baudrate)
OpenCall ==
    /\ Idle
    /\ \E baud \in BaudRates :
        LET o == open_port(serial, baud)
        IN /\ call' = SessionCall("open", baud)
           /\ serial' = o.serial
           /\ trace' = o.events
    /\ outcome' = NoOutcome
    /\ pc' = "done"
    /\ loc' = NoLocals
    /\ UNCHANGED <<in_boot2, reset_pin, rx, env>>

\* close(); bytes not yet read are lost with the endpoint.
CloseCall ==
    /\ Idle
    /\ LET c == close_port(serial)
       IN /\ call' = SessionCall("close", 0)
          /\ serial' = c.serial
          /\ trace' = c.events
          /\ rx' = IF serial.open THEN <<>> ELSE rx
    /\ outcome' = NoOutcome
    /\ pc' = "done"
    /\ loc' = NoLocals
    /\ UNCHANGED <<in_boot2, reset_pin, env>>

\* The finished operation returns to its caller, which issues the next one.
Return ==
    /\ pc = "done"
    /\ pc' = "idle"
    /\ call' = NoEngineCall
    /\ loc' = NoLocals
    /\ trace' = <<>>
    /\ outcome' = NoOutcome
    /\ UNCHANGED <<serial, in_boot2, reset_pin, rx, env>>

Next ==
    \/ Return
    \/ CheckBoot2
    \/ ReadMemoryCall
    \/ ReadMemoryChunk
    \/ GetInfoCall
    \/ WriteMemoryCall
    \/ WriteMemoryChunk
    \/ GoExecute
    \/ ExecMachineCode
    \/ OpenCall
    \/ CloseCall
    \/ SendCommandCall

Spec == Init /\ [][Next]_vars

(***************************************************************************)
(* Claims about the command engine (checked under Spec)                     *)
(***************************************************************************)
\* Positions of the events of a kind in the trace, and the k-th of them.
EventsAt(op) == {i \in 1..Len(trace) : trace[i].op = op}
CountBefore(op, i) == Cardinality({j \in 1..i : trace[j].op = op})
NthEvent(op, k) == CHOOSE i \in EventsAt(op) : CountBefore(op, i) = k

NumChunks(n) == (n + 63) \div 64
ChunkLen(n, k) == Min(64, n - 64 * k)

\* The frame of a command as section 6 of the specification lays it out.
WireFrame(cmd, addr, payload) ==
    LET body == <<90, cmd, (addr \div 256) % 256, addr % 256, Len(payload)>> \o payload
    IN body \o <<XorOfBytes(body)>>

\* The target has answered every command of the running operation correctly.
Faithful ==
    \A i \in EventsAt("read") :
        i > 1 /\ trace[i - 1].op = "write" /\ trace[i].data = TargetAnswer(trace[i - 1].data)

\* Byte j (from 1) of the concatenated payloads of the responses read so far.
PayloadByte(j) ==
    trace[NthEvent("read", ((j - 1) \div 64) + 1)].data[5 + ((j - 1) % 64) + 1]

ReadChunksAsClaimed ==
    LET a == call.addr
        n == call.size
    IN /\ Cardinality(EventsAt("write")) = NumChunks(n)
       /\ \A k \in 0..(NumChunks(n) - 1) :
            trace[NthEvent("write", k + 1)].data
                = WireFrame(241, a + 64 * k, <<ChunkLen(n, k)>>)
       /\ outcome.status = "ok"
       /\ Len(outcome.value) = n
       /\ \A j \in 1..n : outcome.value[j] = PayloadByte(j)

\* C4: against a target that answers every Read correctly, read_memory(a, n)
\* issues exactly ceil(n/64) Read commands, the k-th at a + 64k asking for
\* min(64, n - 64k) bytes, in increasing k, and returns the n payload bytes
\* in that order, for any start address a.
C4_ReadChunks ==
    (pc = "done" /\ call.op = "read_memory" /\ call.entry.in_boot2
     /\ call.entry.serial.open /\ Faithful)
        => ReadChunksAsClaimed

\* The same for the transfers that end within the 16-bit address space.
C4_ReadChunksWithinAddressSpace ==
    (pc = "done" /\ call.op = "read_memory" /\ call.entry.in_boot2
     /\ call.entry.serial.open /\ Faithful
     /\ call.addr + call.size <= 65536)
        => ReadChunksAsClaimed

C4_WitnessFourRequests ==
    /\ pc = "done"
    /\ call.op = "read_memory"
    /\ call.entry.serial.open
    /\ call.size = 200
    /\ Faithful
    /\ Cardinality(EventsAt("write")) = 4
    /\ outcome.status = "ok"

\* The response read at trace position i, for chunk k of a transfer at a of
\* n bytes, is one that read_memory must refuse.
RefusedReadReply(i) ==
    LET k == CountBefore("write", i) - 1
        p == parse_response_frame(trace[i].data)
    IN \/ trace[i].data = <<>>
       \/ p.status # "ok"
       \/ p.value.cmd # 241
       \/ p.value.addr # call.addr + 64 * k
       \/ Len(p.value.data) # ChunkLen(call.size, k)

\* C5: a response to a chunk of read_memory that echoes another command or
\* address, carries a payload of another length than requested, or does not
\* arrive or decode, makes read_memory fail with an error and no data, and
\* nothing is written after it; the requests on the link are those of chunks
\* 0, 1, 2, ... once each, so no chunk is requested a second time.
C5_ReadAbort ==
    call.op = "read_memory" =>
        /\ \A i \in EventsAt("read") :
             RefusedReadReply(i) =>
                /\ i = Len(trace)
                /\ pc = "done"
                /\ outcome.status = "error"
                /\ outcome.value = <<>>
        /\ Cardinality(EventsAt("write")) <= NumChunks(call.size)
        /\ \A i \in EventsAt("write") :
             LET k == CountBefore("write", i) - 1
             IN trace[i].data = WireFrame(241, call.addr + 64 * k,
                                          <<ChunkLen(call.size, k)>>)

\* A second chunk answered with a payload one byte short.
C5_Witness ==
    /\ call.op = "read_memory"
    /\ pc = "done"
    /\ Cardinality(EventsAt("read")) = 2
    /\ outcome.status = "error"
    /\ outcome.err = "ReadLengthMismatch"
    /\ Cardinality(EventsAt("write")) < NumChunks(call.size)

\* The response read at trace position i acknowledges chunk k of the write.
Acknowledges(i, k) ==
    LET p == parse_response_frame(trace[i].data)
    IN /\ trace[i].data # <<>>
       /\ p.status = "ok"
       /\ p.value.cmd = 242
       /\ p.value.addr = call.addr + 64 * k

\* C6: write_memory(a, data) sends data in order in Write commands of at most
\* 64 payload bytes at a, a+64, ...; the command of chunk k+1 is written only
\* after a response echoing Write and the address of chunk k was read; a
\* missing, malformed or mismatching response makes it fail with nothing
\* written after; it returns success only with every chunk acknowledged.
C6_WriteAcknowledged ==
    call.op = "write_memory" =>
        /\ \A i \in EventsAt("write") :
             LET k == CountBefore("write", i) - 1
                 chunk == SubSeq(call.data, 64 * k + 1,
                                 64 * k + ChunkLen(Len(call.data), k))
             IN /\ k < NumChunks(Len(call.data))
                /\ Len(chunk) <= 64
                /\ trace[i].data = WireFrame(242, call.addr + 64 * k, chunk)
                /\ k > 0 => \E r \in EventsAt("read") :
                               /\ r < i
                               /\ CountBefore("write", r) = k
                               /\ Acknowledges(r, k - 1)
        /\ \A i \in EventsAt("read") :
             ~Acknowledges(i, CountBefore("write", i) - 1) =>
                /\ i = Len(trace)
                /\ pc = "done"
                /\ outcome.status = "error"
        /\ (pc = "done" /\ outcome.status = "ok") =>
             /\ Cardinality(EventsAt("read")) = NumChunks(Len(call.data))
             /\ \A i \in EventsAt("read") : Acknowledges(i, CountBefore("write", i) - 1)

\* A write of three chunks, all acknowledged.
C6_Witness ==
    /\ call.op = "write_memory"
    /\ pc = "done"
    /\ outcome.status = "ok"
    /\ Len(call.data) = 129
    /\ Cardinality(EventsAt("write")) = 3

GuardedOps == {"read_memory", "write_memory", "go_execute", "exec_machine_code", "get_info"}

\* C7: with in_boot2 false, read_memory, write_memory, go_execute,
\* exec_machine_code and get_info fail with the not-in-boot2 error, write
\* nothing to the link and leave in_boot2 and the endpoint as they were.
C7_NotInBoot2 ==
    (pc = "done" /\ call.op \in GuardedOps /\ ~call.entry.in_boot2) =>
        /\ outcome.status = "error"
        /\ outcome.err = "NotInBoot2"
        /\ trace = <<>>
        /\ in_boot2 = FALSE
        /\ serial = call.entry.serial

C7_Witness ==
    /\ pc = "done"
    /\ call.op = "go_execute"
    /\ ~call.entry.in_boot2
    /\ outcome.err = "NotInBoot2"
    /\ serial.open

\* The handshake request of check_boot2 as it appears on the wire.
ProbeFrame == WireFrame(CMD_READ, HANDSHAKE_ADDR, <<8>>)

\* The bytes are a response that decodes without error: at least six bytes,
\* header 0xA5, last byte the XOR of all before it, and not shorter than the
\* length field says.
Decodes(bytes) ==
    /\ Len(bytes) >= 6
    /\ bytes[1] = 165
    /\ bytes[Len(bytes)] = XorOfBytes(SubSeq(bytes, 1, Len(bytes) - 1))
    /\ Len(bytes) >= 6 + bytes[5]

\* The bytes are a response on which the probe succeeds: decodable, echoing
\* Read and 0x8000, with at least 8 bytes of payload.
ProbeSucceeds(bytes) ==
    /\ Decodes(bytes)
    /\ bytes[2] = 241
    /\ bytes[3] = 128 /\ bytes[4] = 0
    /\ bytes[5] >= 8

\* C13: check_boot2 never raises.  On an open port it clears the input,
\* writes one Read frame for 0x8000 whose only payload byte is 0x08 and reads
\* once; it returns true, and sets in_boot2, exactly when the bytes read are a
\* response that decodes, echoes Read and 0x8000 and carries at least 8
\* payload bytes; otherwise (nothing read, decode error, other echo, short
\* payload) it returns false.  On a closed port it writes nothing and
\* returns false.
C13_CheckBoot2 ==
    (pc = "done" /\ call.op = "check_boot2") =>
        /\ outcome.status = "ok"
        /\ outcome.value \in BOOLEAN
        /\ outcome.value => in_boot2
        /\ IF call.entry.serial.open
           THEN /\ Len(trace) = 3
                /\ trace[1] = Ev("flush", "send_command", <<>>)
                /\ trace[2] = Ev("write", "send_command", ProbeFrame)
                /\ ProbeFrame[5] = 1 /\ ProbeFrame[6] = 8 /\ Len(ProbeFrame) = 7
                /\ trace[3].op = "read"
                /\ outcome.value = ProbeSucceeds(trace[3].data)
           ELSE /\ trace = <<>>
                /\ outcome.value = FALSE

\* The probe succeeded on the correct answer of the target.
C13_Witness ==
    /\ pc = "done" /\ call.op = "check_boot2"
    /\ outcome = Ok(TRUE)
    /\ in_boot2
    /\ trace[3].data = TargetAnswer(ProbeFrame)

\* The probe was refused for a payload of 7 bytes; on a closed port it
\* returned false without writing.
C13_WitnessShortPayload ==
    /\ pc = "done" /\ call.op = "check_boot2"
    /\ outcome = Ok(FALSE)
    /\ Len(trace) = 3 /\ Decodes(trace[3].data) /\ trace[3].data[5] = 7

C13_WitnessClosedPort ==
    /\ pc = "done" /\ call.op = "check_boot2"
    /\ ~call.entry.serial.open
    /\ outcome = Ok(FALSE)

\* C14: in_boot2 starts false and changes only by a successful probe: a
\* step that changes it is a check_boot2 that returned true and made it true;
\* a failed probe and every other operation leave it as it was.
C14_StageOnlyBySuccess ==
    /\ ~in_boot2
    /\ [][in_boot2' # in_boot2 =>
            /\ in_boot2'
            /\ pc' = "done" /\ call'.op = "check_boot2"
            /\ outcome' = Ok(TRUE)]_vars

\* What the code does: in_boot2 is written by check_boot2 only, which sets
\* it to its result, true or false.
C14_StageFollowsProbe ==
    [][in_boot2' # in_boot2 =>
            /\ pc' = "done" /\ call'.op = "check_boot2"
            /\ outcome' = Ok(in_boot2')]_vars

\* A probe failed while in_boot2 was true, and in_boot2 is false after it.
C14_WitnessCleared ==
    /\ pc = "done" /\ call.op = "check_boot2"
    /\ call.entry.in_boot2
    /\ call.entry.serial.open
    /\ outcome = Ok(FALSE)
    /\ ~in_boot2

\* The error with which the decoder refuses bytes that do not decode.
DecodeError(bytes) ==
    IF Len(bytes) < 6 THEN "FrameTooShort"
    ELSE IF bytes[1] # 165 THEN "BadHeader"
    ELSE IF bytes[Len(bytes)] # XorOfBytes(SubSeq(bytes, 1, Len(bytes) - 1))
         THEN "ChecksumMismatch"
    ELSE "LengthMismatch"

\* The first (at most 70) bytes of what the target may send in answer to a
\* frame it received.
AnswersTo(frame) ==
    {SubSeq(r, 1, Min(70, Len(r))) : r \in TargetReplies(frame)}

SentCommands == {i \in EventsAt("write") : trace[i].by = "send_command"}
ReadResponses == {i \in EventsAt("read") : trace[i].by = "send_command"}

C19_OpenAtRequestedRate ==
    (pc = "done" /\ call.op = "open") =>
        /\ serial = OpenPort(call.baud)
        /\ trace = IF call.entry.serial.open
                   THEN <<Ev("close", "close", <<>>), Ev("open", "open", <<call.baud>>)>>
                   ELSE <<Ev("open", "open", <<call.baud>>)>>

\* What the code does: open(baud) opens an endpoint only when none is open,
\* and otherwise leaves the open one as it is, at its own rate.
C19_OpenOnlyWhenClosed ==
    (pc = "done" /\ call.op = "open") =>
        IF call.entry.serial.open
        THEN serial = call.entry.serial /\ trace = <<>>
        ELSE serial = OpenPort(call.baud) /\ trace = <<Ev("open", "open", <<call.baud>>)>>

\* open(9600) has returned and the endpoint is still the one at 128000 baud.
C19_WitnessRateKept ==
    /\ pc = "done" /\ call.op = "open"
    /\ call.baud = 9600
    /\ serial = OpenPort(128000)

\* C21: a payload of more than 64 bytes is refused with PayloadTooLarge by
\* the encoder, so that send_command given one (Write at 0x8000 with 65
\* bytes) and exec_machine_code given one end in that error with no byte
\* written to the link; a payload of 64 bytes is encoded and written.
C21_PayloadTooLarge ==
    (pc = "done" /\ call.op \in {"send_command", "exec_machine_code"}
     /\ call.entry.serial.open
     /\ (call.op = "exec_machine_code" => call.entry.in_boot2)) =>
        IF Len(call.data) > 64
        THEN /\ outcome = Err("PayloadTooLarge")
             /\ EventsAt("write") = {}
        ELSE /\ outcome.err # "PayloadTooLarge"
             /\ Cardinality(EventsAt("write")) = 1
             /\ trace[2].data = WireFrame(IF call.op = "send_command" THEN 242 ELSE 244,
                                          call.addr, call.data)

\* send_command was given Write at 0x8000 with 65 bytes.
C21_Witness ==
    /\ pc = "done" /\ call.op = "send_command"
    /\ call.entry.serial.open
    /\ call.addr = 32768 /\ Len(call.data) = 65
    /\ outcome = Err("PayloadTooLarge")
    /\ EventsAt("write") = {}

\* exec_machine_code was given 65 bytes while in boot2.
C21_WitnessExec ==
    /\ pc = "done" /\ call.op = "exec_machine_code"
    /\ call.entry.serial.open /\ call.entry.in_boot2
    /\ Len(call.data) = 65
    /\ outcome = Err("PayloadTooLarge")
    /\ trace = <<>>

\* C23: go_execute, in boot2 with the port open, writes one Go (0xF3) frame
\* with an empty payload for the address given, reads nothing from the link
\* and reports success, whether or not bytes come from the target.
C23_GoWithoutResponse ==
    (pc = "done" /\ call.op = "go_execute"
     /\ call.entry.in_boot2 /\ call.entry.serial.open) =>
        /\ EventsAt("write") = {2}
        /\ trace[2].data = WireFrame(243, call.addr, <<>>)
        /\ trace[2].data[2] = 243
        /\ Len(trace[2].data) = 6
        /\ EventsAt("read") = {}
        /\ outcome = Ok(TRUE)

\* go_execute reported success and the target has sent nothing.
C23_Witness ==
    /\ pc = "done" /\ call.op = "go_execute"
    /\ call.entry.in_boot2 /\ call.entry.serial.open
    /\ rx = <<>>
    /\ EventsAt("write") = {2}
    /\ outcome = Ok(TRUE)

\* go_execute reported success and a byte sent by the target is left unread.
C23_WitnessReplyUnread ==
    /\ pc = "done" /\ call.op = "go_execute"
    /\ call.entry.in_boot2 /\ call.entry.serial.open
    /\ rx = <<165>>
    /\ outcome = Ok(TRUE)

\* What exec_machine_code read from the link, nothing if it read nothing.
ExecResponse == IF EventsAt("read") = {} THEN <<>> ELSE trace[Len(trace)].data

C24_WitnessNoResponse ==
    /\ pc = "done" /\ call.op = "exec_machine_code"
    /\ call.entry.in_boot2 /\ call.entry.serial.open
    /\ EventsAt("write") = {2}
    /\ ExecResponse = <<>>
    /\ outcome = Err("NoResponse")

\* A response arrived and decoded, and exec_machine_code succeeded.
C24_WitnessSuccess ==
    /\ pc = "done" /\ call.op = "exec_machine_code"
    /\ call.entry.in_boot2 /\ call.entry.serial.open
    /\ Decodes(ExecResponse)
    /\ outcome = Ok(TRUE)

\* The response to the one Read frame of get_info, and whether read_memory
\* accepts it: decodable, echoing Read and 0x8000, with 8 bytes of payload.
InfoResponse == trace[3].data

InfoReadSucceeds ==
    /\ Decodes(InfoResponse)
    /\ InfoResponse[2] = 241
    /\ InfoResponse[3] = 128 /\ InfoResponse[4] = 0
    /\ InfoResponse[5] = 8

\* C28: get_info, in boot2 with the port open, reads the 8 bytes at 0x8000
\* with one Read frame and returns boot0_address = data[2] * 256 + data[3]
\* and main_program_address = data[6] * 256 + data[7] of the 8 bytes read
\* (offsets from 0); it fails when the read fails.
C28_GetInfo ==
    (pc = "done" /\ call.op = "get_info"
     /\ call.entry.in_boot2 /\ call.entry.serial.open) =>
        /\ Len(trace) = 3
        /\ EventsAt("write") = {2}
        /\ trace[2].data = WireFrame(241, 32768, <<8>>)
        /\ trace[3].op = "read"
        /\ outcome.status \in {"ok", "error"}
        /\ outcome.status = "ok" <=> InfoReadSucceeds
        /\ outcome.status = "ok" =>
             LET data == [i \in 0..7 |-> InfoResponse[6 + i]]
             IN /\ outcome.value.boot0_address = data[2] * 256 + data[3]
                /\ outcome.value.main_program_address = data[6] * 256 + data[7]
                /\ outcome.value.raw_data = SubSeq(InfoResponse, 6, 13)

\* get_info returned two fields whose bytes differ, so that the byte order
\* shows.
C28_Witness ==
    /\ pc = "done" /\ call.op = "get_info"
    /\ call.entry.in_boot2 /\ call.entry.serial.open
    /\ outcome.status = "ok"
    /\ InfoResponse[8] # InfoResponse[9]
    /\ InfoResponse[12] # InfoResponse[13]
    /\ outcome.value.boot0_address = InfoResponse[8] * 256 + InfoResponse[9]

\* The read failed (nine bytes came for eight), and get_info failed.
C28_WitnessReadFails ==
    /\ pc = "done" /\ call.op = "get_info"
    /\ call.entry.in_boot2 /\ call.entry.serial.open
    /\ Len(trace) = 3
    /\ Decodes(InfoResponse) /\ InfoResponse[5] = 9
    /\ outcome.status = "error"

\* C34: in read_memory and write_memory the address the echo of a chunk is
\* compared with is the 16-bit address put in the command frame, so that a
\* transfer running past 0xFFFF succeeds, like any other, against a target
\* that echoes the address it received.
C34_EchoComparedModulo ==
    (pc = "done" /\ call.op \in {"read_memory", "write_memory"}
     /\ call.entry.in_boot2 /\ call.entry.serial.open /\ Faithful) =>
        /\ outcome.status = "ok"
        /\ Cardinality(EventsAt("write")) = NumChunks(call.size)

\* The same for the transfers that end within the 16-bit address space.
C34_EchoComparedWithinAddressSpace ==
    (pc = "done" /\ call.op \in {"read_memory", "write_memory"}
     /\ call.entry.in_boot2 /\ call.entry.serial.open /\ Faithful
     /\ call.addr + call.size <= 65536) =>
        /\ outcome.status = "ok"
        /\ Cardinality(EventsAt("write")) = NumChunks(call.size)

\* A write of 65 bytes at 0xFFC0: the second chunk was sent with address
\* 0x0000, echoed so, and refused.
C34_WitnessWritePastTop ==
    /\ pc = "done" /\ call.op = "write_memory"
    /\ call.entry.in_boot2 /\ call.entry.serial.open /\ Faithful
    /\ call.addr = 65472 /\ call.size = 65
    /\ Cardinality(EventsAt("write")) = 2
    /\ trace[Len(trace) - 1].data[3] = 0 /\ trace[Len(trace) - 1].data[4] = 0
    /\ outcome.status = "error"

\* The command code of an operation of the engine.
CommandOf(op) ==
    IF op = "read_memory" THEN CMD_READ
    ELSE IF op = "write_memory" THEN CMD_WRITE
    ELSE CMD_EXEC

\* A read, write or exec call that has something to send has returned.
TransferDone ==
    /\ pc = "done"
    /\ \/ call.op \in {"read_memory", "write_memory"} /\ call.size > 0
       \/ call.op = "exec_machine_code" /\ Len(call.data) <= MAX_DATA_SIZE

\* C39: go_execute leaves in_boot2 and the endpoint as they were.  After a Go
\* command has been sent the session still reports boot2, and a read, write
\* or exec call made then, with the port open, writes its command frame to
\* the link and does not fail with the not-in-boot2 error.
C39_GoLeavesSessionInBoot2 ==
    /\ (pc = "done" /\ call.op = "go_execute") =>
          (in_boot2 = call.entry.in_boot2 /\ serial = call.entry.serial)
    /\ env.after_go => in_boot2
    /\ (env.after_go /\ TransferDone /\ call.entry.serial.open) =>
          /\ outcome.err # "NotInBoot2"
          /\ SentCommands # {}
          /\ \A i \in SentCommands : trace[i].data[2] = CommandOf(call.op)

\* A read made after a Go command, with no probe in between, was answered.
C39_Witness ==
    /\ env.after_go /\ in_boot2
    /\ pc = "done" /\ call.op = "read_memory" /\ call.size > 0
    /\ SentCommands # {}
    /\ outcome.status = "ok"

\* A write and an exec made after a Go command wrote their frames.
C39_WitnessWrite ==
    /\ env.after_go
    /\ pc = "done" /\ call.op = "write_memory" /\ call.size > 0
    /\ SentCommands # {}

C39_WitnessExec ==
    /\ env.after_go
    /\ pc = "done" /\ call.op = "exec_machine_code"
    /\ SentCommands # {}

(***************************************************************************)
(* Transport session and stage transfer                                     *)
(***************************************************************************)
\* The control lines named by reset_pin driven to level v.
SetLines(pin, v) ==
    (IF pin \in {"rts", "rts+dtr"} THEN <<Ev("rts", "reset_mcu", <<v>>)>> ELSE <<>>)
    \o (IF pin \in {"dtr", "rts+dtr"} THEN <<Ev("dtr", "reset_mcu", <<v>>)>> ELSE <<>>)

\* A buggy variant: both lines are driven whichever is selected.
reset_mcu_both_lines(pin, port) ==
    IF pin = "none" \/ ~port.open THEN <<>>
    ELSE SetLines("rts+dtr", 1) \o <<Ev("sleep", "reset_mcu", <<10>>)>>
         \o SetLines("rts+dtr", 0) \o <<Ev("sleep", "reset_mcu", <<10>>)>>
         \o SetLines("rts+dtr", 1) \o <<Ev("sleep", "reset_mcu", <<150>>)>>
         \o SetLines("rts+dtr", 0)

\* reset_mcu(): the events of the pulse (levels 1 = asserted, delays in ms).
\* The serial driver is taken not to raise when a line is set.
reset_mcu(pin, port) ==
    IF pin = "none" \/ ~port.open THEN <<>>
    ELSE SetLines(pin, 1) \o <<Ev("sleep", "reset_mcu", <<10>>)>>
         \o SetLines(pin, 0) \o <<Ev("sleep", "reset_mcu", <<10>>)>>
         \o SetLines(pin, 1) \o <<Ev("sleep", "reset_mcu", <<150>>)>>
         \o SetLines(pin, 0)

\* reset_mcu(): the value returned.
reset_mcu_returns(pin, port) == IF pin = "none" THEN TRUE ELSE port.open

\* bytes(reversed(data))
Reversed(data) == [i \in 1..Len(data) |-> data[Len(data) + 1 - i]]

\* The boot2 image file: found or not, and its content.
ImageFile(found, data) == [found |-> found, data |-> data]

\* A buggy variant: the image is sent without reversal.
send_boot2_binary_unreversed(image) ==
    IF ~image.found
    THEN [sent |-> FALSE, events |-> <<Ev("nofile", "send_boot2_binary", <<>>)>>]
    ELSE IF image.data = <<>>
    THEN [sent |-> FALSE, events |-> <<Ev("file", "send_boot2_binary", <<>>)>>]
    ELSE [sent |-> TRUE,
          events |-> <<Ev("file", "send_boot2_binary", image.data),
                       Ev("write", "send_boot2_binary", image.data)>>]

\* send_boot2_binary(bin_file): the file is read; a non-empty image is
\* written reversed in one write.
send_boot2_binary(image) ==
    IF ~image.found
    THEN [sent |-> FALSE, events |-> <<Ev("nofile", "send_boot2_binary", <<>>)>>]
    ELSE IF image.data = <<>>
    THEN [sent |-> FALSE, events |-> <<Ev("file", "send_boot2_binary", <<>>)>>]
    ELSE [sent |-> TRUE,
          events |-> <<Ev("file", "send_boot2_binary", image.data),
                       Ev("write", "send_boot2_binary", Reversed(image.data))>>]

\* buffer[-2:] == b'\x00\x0d' with len(buffer) >= 2
EndsWithMarker(buffer) == Len(buffer) >= 2 /\ LastN(buffer, 2) = <<0, 13>>

\* b'\x00\x0d' in data
ContainsMarker(data) ==
    \E i \in 1..(Len(data) - 1) : data[i] = 0 /\ data[i + 1] = 13

\* A buggy variant: any two received bytes are taken for the marker.
windowed_match_any(buffer, data) == Len(buffer) >= 2

\* A buggy variant: only the bytes of the last read are tested.
windowed_match_last_read(buffer, data) == EndsWithMarker(data)

\* The test of the windowed wait after a read of data, buffer being all
\* bytes received since the wait began.
windowed_match(buffer, data) == EndsWithMarker(buffer)

(***************************************************************************)
(* SpecUpload: one run of upload_boot2.  The target emits the bytes of      *)
(* env.stream one at a time, at any moment while the 9600 baud endpoint is  *)
(* open; the host's polls interleave with them in every possible way.  The  *)
(* image file is whatever is on disk when send_boot2_binary opens it.       *)
(***************************************************************************)
StreamBytes == {0, 13, 65}
ExampleStream == <<65, 66, 0, 13>>
RepeatedMarker == <<0, 13, 0, 13>>
Streams == SeqsUpTo(StreamBytes, MaxStreamLen) \cup {ExampleStream, RepeatedMarker}

Images ==
    {ImageFile(FALSE, <<>>)}
    \cup {ImageFile(TRUE, Pattern(n)) : n \in (0..MaxImageLen) \cup {128}}

ResetPins == {"rts+dtr", "rts", "dtr", "none"}

UploadLocals(buffer) == [buffer |-> buffer]

\* The states of the endpoint in which upload_boot2 can be called: open at
\* the rate given to main, or closed.
EntryPorts == {OpenPort(BOOT2_BAUDRATE), OpenPort(BOOT1_BAUDRATE), ClosedPort}

UploadCall ==
    [op |-> "upload_boot2", entry |-> [in_boot2 |-> in_boot2, serial |-> serial],
     stream |-> env.stream]

\* upload_boot2 is called from main after a failed probe (in_boot2 false) or
\* by the reload command of the interactive mode (in_boot2 either way).
UploadInit ==
    /\ serial \in EntryPorts
    /\ in_boot2 \in BOOLEAN
    /\ reset_pin \in ResetPins
    /\ rx = <<>>
    /\ trace = <<>>
    /\ pc = "idle"
    /\ \E st \in Streams : env = [stream |-> st]
    /\ call = UploadCall
    /\ loc = UploadLocals(<<>>)
    /\ outcome = NoOutcome

\* A buggy variant: the 9600 baud endpoint is opened without closing the
\* endpoint in use.
UploadOpenLeaks ==
    /\ pc = "idle"
    /\ LET o == open_port_unchecked(serial, BOOT1_BAUDRATE)
       IN /\ serial' = o.serial
          /\ trace' = trace \o o.events \o reset_mcu(reset_pin, o.serial)
    /\ rx' = <<>>
    /\ pc' = IF reset_pin # "none" THEN "windowed_enter" ELSE "blocking_enter"
    /\ UNCHANGED <<in_boot2, reset_pin, call, loc, outcome, env>>

\* upload_boot2, steps 1 and 2: switch to 9600 baud and pulse the reset.
UploadOpen ==
    /\ pc = "idle"
    /\ LET c == close_port(serial)
           o == open_port(c.serial, BOOT1_BAUDRATE)
       IN /\ serial' = o.serial
          /\ trace' = trace \o c.events \o o.events \o reset_mcu(reset_pin, o.serial)
    /\ rx' = <<>>
    /\ pc' = IF reset_pin # "none" THEN "windowed_enter" ELSE "blocking_enter"
    /\ UNCHANGED <<in_boot2, reset_pin, call, loc, outcome, env>>

\* The target sends its next byte.
TargetEmit ==
    /\ pc \in {"windowed_enter", "windowed", "blocking_enter", "blocking"}
    /\ serial.open
    /\ env.stream # <<>>
    /\ rx' = Append(rx, Head(env.stream))
    /\ env' = [env EXCEPT !.stream = Tail(env.stream)]
    /\ UNCHANGED <<serial, in_boot2, reset_pin, trace, pc, call, loc, outcome>>

\* wait_for_boot1_signal_and_send_boot2: entry, the input buffer is cleared.
WindowedEnter ==
    /\ pc = "windowed_enter"
    /\ IF ~serial.open
       THEN pc' = "blocking_enter" /\ UNCHANGED <<rx, trace>>
       ELSE /\ rx' = <<>>
            /\ trace' = Append(trace, Ev("flush", "wait_windowed", <<>>))
            /\ pc' = "windowed"
    /\ loc' = UploadLocals(<<>>)
    /\ UNCHANGED <<serial, in_boot2, reset_pin, call, outcome, env>>

\* One iteration of the 250 ms loop: all waiting bytes are read and the
\* marker is tested; on a match the image is sent at once.
WindowedPoll ==
    /\ pc = "windowed"
    /\ IF rx = <<>>
       THEN UNCHANGED <<rx, trace, pc, loc>>
       ELSE LET buffer == loc.buffer \o rx
                read == Ev("read", "wait_windowed", rx)
            IN /\ rx' = <<>>
               /\ loc' = UploadLocals(buffer)
               /\ IF windowed_match(buffer, rx)
                  THEN \E image \in Images :
                        LET s == send_boot2_binary(image)
                        IN /\ trace' = Append(trace, read) \o s.events
                           /\ pc' = IF s.sent THEN "sent" ELSE "blocking_enter"
                  ELSE /\ trace' = Append(trace, read)
                       /\ pc' = "windowed"
    /\ UNCHANGED <<serial, in_boot2, reset_pin, call, outcome, env>>

\* The window is over without a match.
WindowedExpire ==
    /\ pc = "windowed"
    /\ pc' = "blocking_enter"
    /\ UNCHANGED <<serial, in_boot2, reset_pin, rx, trace, call, loc, outcome, env>>

\* wait_for_boot1_signal_blocking: entry, the input buffer is cleared.
BlockingEnter ==
    /\ pc = "blocking_enter"
    /\ rx' = <<>>
    /\ trace' = Append(trace, Ev("flush", "wait_blocking", <<>>))
    /\ pc' = "blocking"
    /\ UNCHANGED <<serial, in_boot2, reset_pin, call, loc, outcome, env>>

\* One iteration of the unbounded loop: the bytes read are tested for the
\* marker; on a match the image is sent at once.
BlockingPoll ==
    /\ pc = "blocking"
    /\ IF rx = <<>>
       THEN UNCHANGED <<rx, trace, pc, outcome>>
       ELSE LET read == Ev("read", "wait_blocking", rx)
            IN /\ rx' = <<>>
               /\ IF ContainsMarker(rx)
                  THEN \E image \in Images :
                        LET s == send_boot2_binary(image)
                        IN /\ trace' = Append(trace, read) \o s.events
                           /\ pc' = IF s.sent THEN "sent" ELSE "done"
                           /\ outcome' = IF s.sent THEN outcome ELSE Ok(FALSE)
                  ELSE /\ trace' = Append(trace, read)
                       /\ pc' = "blocking"
                       /\ outcome' = outcome
    /\ UNCHANGED <<serial, in_boot2, reset_pin, call, loc, env>>

\* A buggy variant: the interrupt is honoured only before the first read.
BlockingInterruptAtEntryOnly ==
    /\ pc = "blocking"
    /\ trace[Len(trace)].op = "flush"
    /\ pc' = "done"
    /\ outcome' = Ok(FALSE)
    /\ UNCHANGED <<serial, in_boot2, reset_pin, rx, trace, call, loc, env>>

\* KeyboardInterrupt during the blocking wait.
BlockingInterrupt ==
    /\ pc = "blocking"
    /\ pc' = "done"
    /\ outcome' = Ok(FALSE)
    /\ UNCHANGED <<serial, in_boot2, reset_pin, rx, trace, call, loc, env>>

\* What may arrive in answer to the probe of check_boot2.
ProbeReplies ==
    TargetReplies(create_command_frame(CMD_READ, HANDSHAKE_ADDR, <<8>>).value)

\* A buggy variant: a failed probe is repeated once.
UploadVerifyRetry ==
    /\ pc = "sent"
    /\ LET c == close_port(serial)
           o == open_port(c.serial, BOOT2_BAUDRATE)
       IN /\ serial' = o.serial
          /\ \E arriving \in ProbeReplies :
              LET x == send_command(CMD_READ, HANDSHAKE_ADDR, <<8>>, TRUE, arriving)
                  live == check_boot2_accepts(x.result)
              IN /\ trace' = trace \o c.events \o o.events \o x.events
                              \o (IF live THEN <<>> ELSE x.events)
                 /\ rx' = x.rx
                 /\ in_boot2' = live
                 /\ outcome' = Ok(live)
    /\ pc' = "done"
    /\ UNCHANGED <<reset_pin, call, loc, env>>

\* upload_boot2, steps 4 and 5: settle, switch to 128000 baud, probe boot2.
UploadVerify ==
    /\ pc = "sent"
    /\ LET c == close_port(serial)
           o == open_port(c.serial, BOOT2_BAUDRATE)
       IN /\ serial' = o.serial
          /\ \E arriving \in ProbeReplies :
              LET x == send_command(CMD_READ, HANDSHAKE_ADDR, <<8>>, TRUE, arriving)
                  live == check_boot2_accepts(x.result)
              IN /\ trace' = trace \o c.events \o o.events \o x.events
                 /\ rx' = x.rx
                 /\ in_boot2' = live
                 /\ outcome' = Ok(live)
    /\ pc' = "done"
    /\ UNCHANGED <<reset_pin, call, loc, env>>

UploadNext ==
    \/ UploadOpen
    \/ TargetEmit
    \/ WindowedEnter
    \/ WindowedPoll
    \/ WindowedExpire
    \/ BlockingEnter
    \/ BlockingPoll
    \/ BlockingInterrupt
    \/ UploadVerify

\* reset_mcu() called on its own, in any state of the endpoint.
ResetMcuCall ==
    /\ pc = "idle"
    /\ call.op = "upload_boot2"
    /\ call' = [call EXCEPT !.op = "reset_mcu"]
    /\ trace' = trace \o reset_mcu(reset_pin, serial)
    /\ outcome' = Ok(reset_mcu_returns(reset_pin, serial))
    /\ pc' = "reset_done"
    /\ UNCHANGED <<serial, in_boot2, reset_pin, rx, loc, env>>

\* The transport operations from an entry state: one run of upload_boot2,
\* or reset_mcu alone.
TransportNext == UploadNext \/ ResetMcuCall

SpecUpload == UploadInit /\ [][TransportNext]_vars

(***************************************************************************)
(* Claims about the stage transfer (checked under SpecUpload)               *)
(***************************************************************************)
WaitReads == {i \in EventsAt("read") : trace[i].by \in {"wait_windowed", "wait_blocking"}}
ImageWrites == {i \in EventsAt("write") : trace[i].by = "send_boot2_binary"}
FileReads == EventsAt("file") \cup EventsAt("nofile")

\* The bytes read from trace position lo to position hi, concatenated.
RECURSIVE ReadFromTo(_, _)
ReadFromTo(lo, hi) ==
    IF lo > hi THEN <<>>
    ELSE ReadFromTo(lo, hi - 1) \o (IF trace[hi].op = "read" THEN trace[hi].data ELSE <<>>)

\* All bytes received in the running wait up to the read at position i: the
\* reads since the input buffer was last cleared.
ReceivedSoFar(i) ==
    LET flushes == {j \in 1..i : trace[j].op = "flush"}
        from == IF flushes = {} THEN 1
                ELSE CHOOSE j \in flushes : \A k \in flushes : k <= j
    IN ReadFromTo(from, i)

MarkerIn(bytes) == \E k \in 1..(Len(bytes) - 1) : bytes[k] = 0 /\ bytes[k + 1] = 13
MarkerAtEnd(bytes) ==
    Len(bytes) >= 2 /\ bytes[Len(bytes) - 1] = 0 /\ bytes[Len(bytes)] = 13

\* The baud rate of the endpoint in use at trace position i.
BaudAt(i) ==
    LET opens == {j \in 1..i : trace[j].op = "open"}
    IN IF opens = {} THEN 0
       ELSE trace[CHOOSE j \in opens : \A k \in opens : k <= j].data[1]

\* The read at position i is one at which its wait detects readiness.
Detects(i) ==
    IF trace[i].by = "wait_windowed" THEN MarkerAtEnd(ReceivedSoFar(i))
    ELSE MarkerIn(trace[i].data)

\* C8: no byte of the image is written before the marker 0x00 0x0D has been
\* received on the endpoint opened at 9600 baud: the image write directly
\* follows, in the trace, the read of the image file, which directly follows
\* the read of the wait that brought the marker; and a read at which a wait
\* detects the marker is followed at once by the read of the file and, the
\* image being there, by its write, no other link operation in between.
C8_ImageAfterMarker ==
    /\ \A w \in ImageWrites :
         /\ w >= 3
         /\ trace[w - 1].op = "file"
         /\ (w - 2) \in WaitReads
         /\ MarkerIn(ReceivedSoFar(w - 2))
         /\ BaudAt(w) = 9600
    /\ \A i \in WaitReads :
         Detects(i) =>
            /\ i + 1 <= Len(trace)
            /\ (i + 1) \in FileReads
            /\ (trace[i + 1].op = "file" /\ trace[i + 1].data # <<>>) =>
                 /\ i + 2 <= Len(trace)
                 /\ (i + 2) \in ImageWrites

\* The marker arrives in the blocking wait after noise, and the image is sent.
C8_Witness ==
    \E w \in ImageWrites :
        /\ trace[w - 2].by = "wait_blocking"
        /\ trace[w - 2].data = <<65, 0, 13>>
        /\ Len(trace[w].data) = 2

\* C9: in the windowed wait readiness is detected at a read exactly when the
\* last two of all bytes received so far are 0x00 0x0D, however the stream
\* is split across reads, also when 0x00 and 0x0D come in different reads.
C9_WindowedDetection ==
    \A i \in WaitReads :
        trace[i].by = "wait_windowed" =>
            (MarkerAtEnd(ReceivedSoFar(i))
                <=> (i + 1 <= Len(trace) /\ (i + 1) \in FileReads))

\* 0x41 0x42 0x00 0x0D received in four reads of one byte, detected at the last.
C9_Witness ==
    \E i \in WaitReads :
        /\ i + 4 <= Len(trace)
        /\ \A k \in 0..3 : trace[i + k].by = "wait_windowed"
        /\ \A k \in 0..3 : trace[i + k].data = <<ExampleStream[k + 1]>>
        /\ (i + 4) \in FileReads

\* C10: a non-empty image of n bytes is transmitted in one write of exactly
\* n bytes, byte i on the wire being byte n-1-i of the file, nothing added;
\* no acknowledgment is read: the operation after the write, if any, is the
\* close of the endpoint.
C10_ReversedSingleWrite ==
    /\ \A f \in EventsAt("file") :
         trace[f].data # <<>> =>
            LET image == trace[f].data
                n == Len(image)
            IN /\ f + 1 <= Len(trace)
               /\ (f + 1) \in ImageWrites
               /\ Len(trace[f + 1].data) = n
               /\ \A i \in 0..(n - 1) : trace[f + 1].data[i + 1] = image[n - i]
               /\ f + 2 <= Len(trace) => trace[f + 2].op = "close"
    /\ \A w \in ImageWrites : trace[w - 1].op = "file"
    /\ Cardinality(ImageWrites) <= 1

\* The 128-byte image went out in one write of 128 bytes and the upload ended.
C10_Witness ==
    /\ pc = "done"
    /\ \E w \in ImageWrites : Len(trace[w].data) = 128 /\ Len(trace[w - 1].data) = 128

\* C11: after the image write nothing happens on the link but the close of
\* the endpoint, its reopening at 128000 baud and one probe (flush, request,
\* read); upload_boot2 then returns success with in_boot2 true when the probe
\* succeeded, failure with in_boot2 false when it failed; neither the probe
\* nor the transfer is repeated.
C11_VerifyOnce ==
    \A w \in ImageWrites :
        /\ pc = "sent" => (w = Len(trace) /\ outcome = NoOutcome)
        /\ pc = "done" =>
             /\ Len(trace) = w + 5
             /\ trace[w + 1] = Ev("close", "close", <<>>)
             /\ trace[w + 2] = Ev("open", "open", <<128000>>)
             /\ trace[w + 3] = Ev("flush", "send_command", <<>>)
             /\ trace[w + 4] = Ev("write", "send_command", ProbeFrame)
             /\ trace[w + 5].op = "read" /\ trace[w + 5].by = "send_command"
             /\ serial = OpenPort(128000)
             /\ in_boot2 = ProbeSucceeds(trace[w + 5].data)
             /\ outcome = Ok(ProbeSucceeds(trace[w + 5].data))
        /\ Cardinality(ImageWrites) = 1
        /\ pc \in {"sent", "done"}

\* An upload started with in_boot2 true ended with a failed probe: failure
\* is returned and in_boot2 is false.
C11_Witness ==
    /\ pc = "done"
    /\ ImageWrites # {}
    /\ call.entry.in_boot2
    /\ trace[Len(trace)].op = "read" /\ trace[Len(trace)].data # <<>>
    /\ outcome = Ok(FALSE)
    /\ ~in_boot2

\* An upload ended with a successful probe.
C11_WitnessSuccess ==
    /\ pc = "done"
    /\ ImageWrites # {}
    /\ outcome = Ok(TRUE)
    /\ in_boot2

\* The positions at which send_boot2_binary found no image to send: the file
\* is missing or empty.
FailedFileReads ==
    EventsAt("nofile") \cup {f \in EventsAt("file") : trace[f].data = <<>>}

\* C12: when the marker has been detected and the image is empty or missing,
\* the upload is over at once: nothing is written to the link, the result is
\* failure, in_boot2 has not become true, and no further wait is entered.
C12_NoImageEndsUpload ==
    \A f \in FailedFileReads :
        /\ f = Len(trace)
        /\ pc = "done"
        /\ outcome = Ok(FALSE)
        /\ in_boot2 => call.entry.in_boot2
        /\ EventsAt("write") = {}

\* What the code does: the claim holds when the marker was detected by the
\* blocking wait; after a detection in the windowed wait the upload goes on
\* into the blocking wait and may still send an image found later.
C12_NoImageEndsBlockingWait ==
    \A f \in FailedFileReads :
        trace[f - 1].by = "wait_blocking" =>
            /\ f = Len(trace)
            /\ pc = "done"
            /\ outcome = Ok(FALSE)
            /\ in_boot2 = call.entry.in_boot2
            /\ EventsAt("write") = {}

\* The windowed wait detected the marker, the image was missing, the blocking
\* wait then detected a second marker and the image, now there, was written.
C12_WitnessWaitsAgain ==
    \E f \in EventsAt("nofile") :
        /\ trace[f - 1].by = "wait_windowed"
        /\ f + 1 <= Len(trace) /\ trace[f + 1] = Ev("flush", "wait_blocking", <<>>)
        /\ ImageWrites # {}

\* The waits entered so far, and whether the windowed wait saw the marker.
BlockingEntered == \E i \in EventsAt("flush") : trace[i].by = "wait_blocking"
WindowedEntered == \E i \in EventsAt("flush") : trace[i].by = "wait_windowed"
WindowedMatched ==
    \E i \in WaitReads : trace[i].by = "wait_windowed" /\ MarkerAtEnd(ReceivedSoFar(i))
WaitsOver == pc \in {"blocking", "sent", "done"}
WindowedSent == \E w \in ImageWrites : trace[w - 2].by = "wait_windowed"
WindowedSendFailed == \E f \in FailedFileReads : trace[f - 1].by = "wait_windowed"

\* When the blocking wait is entered, given what may precede it.
BlockingEntryWhen(allowed) ==
    /\ BlockingEntered => allowed
    /\ reset_pin = "none" => ~WindowedEntered
    /\ (reset_pin = "none" /\ WaitsOver) => BlockingEntered
    /\ (reset_pin # "none" /\ WaitsOver /\ ~WindowedMatched) => BlockingEntered
    /\ WindowedSent => ~BlockingEntered

\* C17: the blocking wait is entered exactly when no reset line is
\* configured, the windowed wait being skipped, or the window of the
\* windowed wait expired without a match; after a match in the windowed
\* wait with the image sent it is not entered.
C17_BlockingWaitEntry ==
    BlockingEntryWhen(\/ reset_pin = "none"
                      \/ (WindowedEntered /\ ~WindowedMatched))

\* What the code does: the blocking wait is also entered after a match in
\* the windowed wait when the image could not be sent.
C17_BlockingWaitEntryOrNoImage ==
    BlockingEntryWhen(\/ reset_pin = "none"
                      \/ (WindowedEntered /\ ~WindowedMatched)
                      \/ (WindowedMatched /\ WindowedSendFailed))

\* The windowed wait matched, the image was empty, the blocking wait began.
C17_WitnessAfterMatch ==
    /\ reset_pin # "none"
    /\ WindowedMatched
    /\ BlockingEntered
    /\ \E f \in EventsAt("file") : trace[f].data = <<>>

\* The events appended to trace by the step.
Appended == SubSeq(trace', Len(trace) + 1, Len(trace'))

\* The step is one in which the blocking wait is cancelled: nothing happens
\* on the link and the upload returns failure.
CancelledStep ==
    /\ trace' = trace
    /\ pc' = "done" /\ outcome' = Ok(FALSE)
    /\ in_boot2' = in_boot2 /\ serial' = serial

\* The step is one in which the blocking wait reads a chunk holding the
\* marker and goes on to send the image.
DetectingStep ==
    /\ Len(Appended) >= 2
    /\ Appended[1].op = "read" /\ Appended[1].by = "wait_blocking"
    /\ MarkerIn(Appended[1].data)
    /\ Appended[2].op \in {"file", "nofile"}
    /\ pc' = "sent" <=> (Len(Appended) = 3 /\ Appended[3].op = "write")

\* C18: the blocking wait is left only by a read of a chunk that holds
\* 0x00 0x0D, which leads to the transfer of the image, or by a cancellation,
\* which can come at every iteration and makes the upload return failure; a
\* read of bytes without the marker, whatever and how many they are, leaves
\* the wait going.
C18_BlockingWaitEnds ==
    /\ [](pc = "blocking" => ENABLED BlockingInterrupt)
    /\ [][(pc = "blocking" /\ pc' # "blocking") => (CancelledStep \/ DetectingStep)]_vars
    /\ [][(pc = "blocking" /\ trace' # trace /\ ~MarkerIn(Appended[1].data)) =>
            (pc' = "blocking" /\ outcome' = outcome /\ Len(Appended) = 1)]_vars

\* Three bytes without the marker were read in three iterations, and the
\* wait was cancelled after them.
C18_Witness ==
    /\ pc = "done" /\ outcome = Ok(FALSE)
    /\ Len(trace) >= 4
    /\ \A k \in 0..2 :
         /\ trace[Len(trace) - k].by = "wait_blocking"
         /\ trace[Len(trace) - k].op = "read"
         /\ ~MarkerIn(trace[Len(trace) - k].data)

\* The number of endpoints open after the first i events of the upload,
\* counting the one that was open when upload_boot2 was called.
LiveEndpoints(i) ==
    (IF call.entry.serial.open THEN 1 ELSE 0)
    + Cardinality({j \in 1..i : trace[j].op = "open"})
    - Cardinality({j \in 1..i : trace[j].op = "close"})

\* C20: whatever open, close and command calls left behind (an endpoint
\* open at either rate, or none), during and after upload_boot2 at most one
\* endpoint is open; each endpoint is opened only when none is open, the one
\* in use having been closed just before; the waits run on an endpoint at
\* 9600 baud and the upload ends, after the image went out, on one at
\* 128000 baud.
C20_OneEndpoint ==
    /\ \A i \in 0..Len(trace) : LiveEndpoints(i) \in {0, 1}
    /\ serial.open <=> LiveEndpoints(Len(trace)) = 1
    /\ \A i \in EventsAt("open") :
         /\ LiveEndpoints(i - 1) = 0
         /\ serial.open /\ (\A j \in EventsAt("open") : j <= i) => serial.baud = trace[i].data[1]
         /\ (i > 1 \/ call.entry.serial.open) => (i > 1 /\ trace[i - 1].op = "close")
    /\ \A i \in EventsAt("close") : LiveEndpoints(i - 1) = 1
    /\ pc \in {"windowed_enter", "windowed", "blocking_enter", "blocking", "sent"}
         => serial = OpenPort(9600)
    /\ (pc = "done" /\ ImageWrites # {}) => serial = OpenPort(128000)
    /\ pc = "idle" => serial = call.entry.serial

\* The upload began on an endpoint at 128000 baud and ended on a new one at
\* 128000 baud, the 9600 baud endpoint having been closed in between.
C20_Witness ==
    /\ pc = "done"
    /\ call.entry.serial = OpenPort(128000)
    /\ Cardinality(EventsAt("close")) = 2
    /\ Cardinality(EventsAt("open")) = 2
    /\ serial = OpenPort(128000)

\* The events of reset_mcu in the trace, and among them those of one control
\* line together with the delays.
ResetEvents ==
    LET ByReset(e) == e.by = "reset_mcu"
    IN SelectSeq(trace, ByReset)

LinePulse(line) ==
    LET OfLine(e) == e.op \in {line, "sleep"}
    IN SelectSeq(ResetEvents, OfLine)

LineSelected(line) ==
    IF line = "rts" THEN reset_pin \in {"rts", "rts+dtr"}
                    ELSE reset_pin \in {"dtr", "rts+dtr"}

C25_WitnessNone ==
    /\ pc = "reset_done" /\ reset_pin = "none" /\ ~serial.open
    /\ trace = <<>> /\ outcome = Ok(TRUE)

\* reset_mcu with both lines configured, on a closed port.
C25_WitnessPortNotOpen ==
    /\ pc = "reset_done" /\ reset_pin = "rts+dtr" /\ ~serial.open
    /\ trace = <<>> /\ outcome = Ok(FALSE)

\* C27: between the reads of the windowed wait only the last byte received is
\* kept of input that did not match, so the buffer kept never holds more than
\* one byte however much arrives during the window.
C27_KeepsLastByteOnly ==
    pc = "windowed" => Len(loc.buffer) <= 1

\* C30: after upload_boot2, entered in a state where in_boot2 goes with an
\* endpoint open at 128000 baud or is false, and ended in whatever way
\* (verified, failed or cancelled during the wait), in_boot2 is true only
\* with the endpoint open at 128000 baud.
C30_InBoot2AtBoot2Rate ==
    (pc = "done" /\ call.op = "upload_boot2"
     /\ (call.entry.in_boot2 => call.entry.serial = OpenPort(128000))) =>
        (in_boot2 => serial = OpenPort(128000))

\* The same for the uploads that reach the verification: there in_boot2 is
\* the result of the probe made at 128000 baud.
C30_VerifiedAtBoot2Rate ==
    (pc = "done" /\ call.op = "upload_boot2" /\ EventsAt("open") # {}
     /\ trace[CHOOSE i \in EventsAt("open") : \A j \in EventsAt("open") : j <= i].data = <<128000>>) =>
        /\ serial = OpenPort(128000)
        /\ in_boot2 = (outcome = Ok(TRUE))

\* A reload in boot2 was cancelled during the blocking wait.
C30_WitnessCancelledReload ==
    /\ pc = "done" /\ call.op = "upload_boot2"
    /\ call.entry.in_boot2 /\ call.entry.serial = OpenPort(128000)
    /\ outcome = Ok(FALSE)
    /\ in_boot2
    /\ serial = OpenPort(9600)

\* The marker has been noticed by one of the two waits: the image file was
\* looked for.
MarkerNoticed == \E i \in 1..Len(trace) : trace[i].op \in {"file", "nofile"}

\* C31: a marker the target sends once after the reset pulse is not lost:
\* however its two bytes fall between the steps of the host (the flush at
\* the start of each wait, the end of the window, the hand-over to the
\* blocking wait), once the host has taken them from the line a wait has
\* noticed the marker.
C31_MarkerNotLost ==
    (call.op = "upload_boot2" /\ reset_pin # "none"
     /\ call.stream = <<0, 13>>
     /\ env.stream = <<>> /\ rx = <<>>
     /\ pc \in {"windowed", "blocking_enter", "blocking", "sent", "done"}) =>
        MarkerNoticed

\* The same when the marker arrives whole after the flush of the wait that
\* is running and is taken by a single read of that wait.
C31_MarkerInOneReadNoticed ==
    \A i \in WaitReads : MarkerAtEnd(trace[i].data) =>
        (i < Len(trace) /\ trace[i + 1].op \in {"file", "nofile"})

\* After the reset pulse and the end of the window the marker arrived before
\* the blocking wait cleared the input, and the wait goes on with nothing to
\* come.
C31_WitnessFlushed ==
    /\ call.op = "upload_boot2" /\ reset_pin # "none"
    /\ call.stream = <<0, 13>>
    /\ env.stream = <<>> /\ rx = <<>>
    /\ pc = "blocking"
    /\ trace[Len(trace)] = Ev("flush", "wait_blocking", <<>>)
    /\ ~MarkerNoticed

\* C32: the blocking wait detects the marker whenever 0x00 0x0D occur one
\* after the other in the bytes it has received, however they are split
\* across reads: while the wait goes on, the bytes read since it began hold
\* no marker.
C32_BlockingDetectsAcrossReads ==
    (pc = "blocking" /\ trace[Len(trace)].by = "wait_blocking") =>
        ~MarkerIn(ReceivedSoFar(Len(trace)))

\* What holds of the blocking wait: it detects the marker at a read exactly
\* when the bytes of that read hold it.
C32_BlockingDetectsWithinRead ==
    \A i \in WaitReads :
        trace[i].by = "wait_blocking" =>
            (MarkerIn(trace[i].data)
                <=> (i + 1 <= Len(trace) /\ (i + 1) \in FileReads))

\* 0x00 was the last byte of one read and 0x0D the first of the next, and the
\* wait goes on.
C32_WitnessSplit ==
    /\ pc = "blocking"
    /\ Len(trace) >= 2
    /\ trace[Len(trace) - 1] = Ev("read", "wait_blocking", <<0>>)
    /\ trace[Len(trace)] = Ev("read", "wait_blocking", <<13>>)

(***************************************************************************)
(* SpecMain: one run of main with a port and no --list-ports.  The port is  *)
(* opened at the default rate and probed; upload_boot2 (the actions of      *)
(* SpecUpload) runs when the probe fails and --skip-boot2 is not given;     *)
(* then the operation of the command line is executed.  The interactive     *)
(* mode, entered when no operation is given, is the session of Spec and is  *)
(* left at once here.  trace holds the events of the whole run.             *)
(***************************************************************************)
MainCall(skip_boot2, stage) ==
    [op |-> "main", skip_boot2 |-> skip_boot2, stage |-> stage,
     entry |-> [in_boot2 |-> FALSE, serial |-> ClosedPort]]

\* The operations of the command line, each with one chunk of data.
MainOperations == {"none", "read", "write", "go", "exec"}
MainAddr == 64

\* What the target emits at 9600 baud during the run, the reset lines tried,
\* and what arrives in answer to a command: the correct answer, a cut one or
\* nothing.
MainStreams == {<<>>, <<0, 13>>, ExampleStream}
MainResetPins == {"rts+dtr", "none"}
MainReplies(cmd, addr, data) ==
    LET good == TargetAnswer(create_command_frame(cmd, addr, data).value)
    IN {good, SubSeq(good, 1, 3), <<>>}

MainInit ==
    /\ serial = ClosedPort
    /\ in_boot2 = FALSE
    /\ reset_pin \in MainResetPins
    /\ rx = <<>>
    /\ trace = <<>>
    /\ pc = "main"
    /\ \E skip \in BOOLEAN : call = MainCall(skip, "open")
    /\ loc = UploadLocals(<<>>)
    /\ outcome = NoOutcome
    /\ \E st \in MainStreams : env = [stream |-> st]

\* loader.open(baudrate=args.baudrate)
MainOpen ==
    /\ pc = "main" /\ call.stage = "open"
    /\ LET o == open_port(serial, BOOT2_BAUDRATE)
       IN serial' = o.serial /\ trace' = trace \o o.events
    /\ call' = [call EXCEPT !.stage = "probe"]
    /\ UNCHANGED <<in_boot2, reset_pin, rx, pc, loc, outcome, env>>

\* in_boot2 = loader.check_boot2() and the choice of the path.
MainProbe ==
    /\ pc = "main" /\ call.stage = "probe"
    /\ \E arriving \in MainReplies(CMD_READ, HANDSHAKE_ADDR, <<8>>) :
        LET x == send_command(CMD_READ, HANDSHAKE_ADDR, <<8>>, TRUE, arriving)
            live == check_boot2_accepts(x.result)
        IN /\ trace' = trace \o x.events
           /\ rx' = x.rx
           /\ in_boot2' = live
           /\ IF ~live /\ ~call.skip_boot2
              THEN pc' = "idle" /\ call' = [call EXCEPT !.stage = "upload"]
              ELSE pc' = "main" /\ call' = [call EXCEPT !.stage = "commands"]
    /\ UNCHANGED <<serial, reset_pin, loc, outcome, env>>

\* A buggy variant: the result of upload_boot2 is not looked at.
MainAfterUploadIgnored ==
    /\ pc = "done" /\ call.stage = "upload"
    /\ pc' = "main"
    /\ call' = [call EXCEPT !.stage = "commands"]
    /\ outcome' = NoOutcome
    /\ UNCHANGED <<serial, in_boot2, reset_pin, rx, trace, loc, env>>

\* upload_boot2 has returned: on failure the port is closed and main
\* returns 1.
MainAfterUpload ==
    /\ pc = "done" /\ call.stage = "upload"
    /\ IF outcome.value
       THEN /\ pc' = "main"
            /\ call' = [call EXCEPT !.stage = "commands"]
            /\ outcome' = NoOutcome
            /\ UNCHANGED <<serial, trace>>
       ELSE LET c == close_port(serial)
            IN /\ serial' = c.serial
               /\ trace' = trace \o c.events
               /\ pc' = "exit"
               /\ call' = [call EXCEPT !.stage = "upload_failed"]
               /\ outcome' = Ok(1)
    /\ UNCHANGED <<in_boot2, reset_pin, rx, loc, env>>

\* The request that an operation of the command line puts on the link.
MainRequest(operation) ==
    IF operation = "read" THEN [cmd |-> CMD_READ, addr |-> MainAddr, data |-> <<8>>, wait |-> TRUE]
    ELSE IF operation = "write"
         THEN [cmd |-> CMD_WRITE, addr |-> MainAddr, data |-> Pattern(2), wait |-> TRUE]
    ELSE IF operation = "go"
         THEN [cmd |-> CMD_GO, addr |-> MainAddr, data |-> <<>>, wait |-> FALSE]
    ELSE [cmd |-> CMD_EXEC, addr |-> 0, data |-> Pattern(2), wait |-> TRUE]

\* The error of the operation given what send_command returned ("" if none).
MainOperationError(operation, result) ==
    IF operation = "read" THEN read_chunk_check(result, MainAddr, 8)
    ELSE IF operation = "write" THEN write_chunk_check(result, MainAddr)
    ELSE IF result.status = "error" THEN result.err
    ELSE ""

\* The operation of the command line, then loader.close() and the exit
\* status: 1 when the operation raised, 0 otherwise.
MainCommand ==
    /\ pc = "main" /\ call.stage = "commands"
    /\ \E operation \in MainOperations :
        LET r == MainRequest(operation)
        IN \E arriving \in MainReplies(r.cmd, r.addr, r.data) :
            LET x == send_command(r.cmd, r.addr, r.data, r.wait,
                                  IF r.wait THEN arriving ELSE <<>>)
                ran == operation # "none" /\ in_boot2
                failed == /\ operation # "none"
                          /\ (~in_boot2 \/ MainOperationError(operation, x.result) # "")
                c == close_port(serial)
            IN /\ trace' = trace \o (IF ran THEN x.events ELSE <<>>) \o c.events
               /\ rx' = <<>>
               /\ serial' = c.serial
               /\ outcome' = Ok(IF failed THEN 1 ELSE 0)
               /\ call' = [call EXCEPT !.stage = operation]
    /\ pc' = "exit"
    /\ UNCHANGED <<in_boot2, reset_pin, loc, env>>

\* KeyboardInterrupt raised in main once the port is open, before the probe
\* or before the operation of the command line: the handler of main prints a
\* message and returns 1; it does not call loader.close().
MainInterrupt ==
    /\ pc = "main" /\ call.stage \in {"probe", "commands"}
    /\ pc' = "exit"
    /\ call' = [call EXCEPT !.stage = "interrupted"]
    /\ outcome' = Ok(1)
    /\ UNCHANGED <<serial, in_boot2, reset_pin, rx, trace, loc, env>>

MainNext ==
    \/ MainOpen
    \/ MainProbe
    \/ UploadNext
    \/ MainAfterUpload
    \/ MainCommand
    \/ MainInterrupt

SpecMain == MainInit /\ [][MainNext]_vars

(***************************************************************************)
(* Claims about main (checked under SpecMain)                               *)
(***************************************************************************)
\* The read of the initial probe is the first response read of the run.
ProbeDone == ReadResponses # {}
InitialProbeSucceeded ==
    ProbeSucceeds(trace[CHOOSE i \in ReadResponses : \A j \in ReadResponses : i <= j].data)

\* The runs of upload_boot2: each begins by opening the port at 9600 baud.
UploadRuns == {i \in EventsAt("open") : trace[i].data = <<9600>>}

ResetPulses == EventsAt("rts") \cup EventsAt("dtr")

\* The run of upload_boot2 is over and has failed: no image went out, or the
\* probe that followed the image write did not succeed.
UploadHasFailed ==
    /\ UploadRuns # {}
    /\ pc \in {"main", "exit"}
    /\ \A w \in ImageWrites : ~ProbeSucceeds(trace[w + 5].data)

\* The commands on the link other than the probes of check_boot2.
OperationsSent == {i \in SentCommands : trace[i].data # ProbeFrame}

\* C16: the initial probe decides the path of main.  If it succeeds there is
\* no reset pulse, no switch to 9600 baud and no image write in the run.  If
\* it fails and --skip-boot2 is not given, upload_boot2 runs, and runs once.
\* If that upload fails, main closes the port and returns 1, having sent no
\* read, write, go or exec command.
C16_MainPath ==
    ProbeDone =>
        /\ InitialProbeSucceeded =>
             /\ ResetPulses = {} /\ ImageWrites = {} /\ UploadRuns = {}
             /\ call.stage \notin {"upload", "upload_failed"}
        /\ (~InitialProbeSucceeded /\ ~call.skip_boot2) =>
             /\ Cardinality(UploadRuns) <= 1
             /\ Cardinality(ImageWrites) <= 1
             /\ call.stage # "upload" => Cardinality(UploadRuns) = 1
             /\ call.stage = "upload" => OperationsSent = {}
        /\ UploadHasFailed =>
             /\ pc = "exit"
             /\ outcome = Ok(1)
             /\ ~serial.open /\ trace[Len(trace)].op = "close"
             /\ OperationsSent = {}
             /\ Cardinality(UploadRuns) = 1

\* The probe failed, the upload was interrupted in the blocking wait, and
\* main has returned 1.
C16_Witness ==
    /\ pc = "exit"
    /\ ProbeDone /\ ~InitialProbeSucceeded
    /\ UploadHasFailed
    /\ ImageWrites = {}
    /\ outcome = Ok(1)

\* The probe succeeded and the read of the command line ran at once.
C16_WitnessNoUpload ==
    /\ pc = "exit"
    /\ ProbeDone /\ InitialProbeSucceeded
    /\ call.stage = "read"
    /\ OperationsSent # {}
    /\ outcome = Ok(0)

\* The probe failed, the upload succeeded, and the write of the command line
\* ran after it.
C16_WitnessUploadThenCommand ==
    /\ pc = "exit"
    /\ ProbeDone /\ ~InitialProbeSucceeded
    /\ ImageWrites # {}
    /\ call.stage = "write"
    /\ OperationsSent # {}
    /\ outcome = Ok(0)

(***************************************************************************)
(* SpecCodec: the codec applied to bounded inputs.  A call is either        *)
(* create_command_frame(cmd, addr, data), optionally followed by the        *)
(* cross-codec fixture (header override, checksum recomputed) and           *)
(* parse_response_frame, or parse_response_frame(data) on a raw buffer.     *)
(***************************************************************************)
ByteSample == {0, 90, 165, 255}
CmdSample == {0, CMD_READ, CMD_WRITE, CMD_GO, CMD_EXEC, 255}
AddrSample == {0, 255, 256, 4660, HANDSHAKE_ADDR, 65535}

ShortPayloads == SeqsUpTo(ByteSample, MaxPayloadLen)
EdgePayloads == {Pattern(n) : n \in {MAX_DATA_SIZE - 1, MAX_DATA_SIZE}}
LongPayloads == {Pattern(n) : n \in {MAX_DATA_SIZE + 1, FRAME_SIZE}}

CodecCall(op, cmd, addr, data) == [op |-> op, cmd |-> cmd, addr |-> addr, data |-> data]

EncodeCalls ==
    {CodecCall("create_command_frame", c, a, d) :
        c \in CmdSample, a \in AddrSample,
        d \in ShortPayloads \cup EdgePayloads \cup LongPayloads}

\* A buffer as a target (or line noise) may produce it: any header, a length
\* byte that may disagree with the payload, a checksum that may be off by a
\* bit, possibly cut short.
RawFrame(h, cmd, addr, lenbyte, payload, ckdelta) ==
    LET body == <<h, cmd, addr \div 256, addr % 256, lenbyte>> \o payload
    IN body \o <<Xor(calculate_checksum(body), ckdelta)>>

RawFrames ==
    {RawFrame(h, c, a, (Len(d) + dl) % 256, d, ck) :
        h \in {ACK_HEADER, CMD_HEADER}, c \in {CMD_READ, CMD_WRITE},
        a \in {HANDSHAKE_ADDR, 4660},
        d \in ShortPayloads \cup {Pattern(MAX_DATA_SIZE)},
        dl \in {0, 1, 255}, ck \in {0, 1}}

CutFrames ==
    {SubSeq(RawFrame(h, CMD_READ, HANDSHAKE_ADDR, 0, <<>>, 0), 1, k) :
        h \in {ACK_HEADER, CMD_HEADER}, k \in 0..5}

DecodeCalls ==
    {CodecCall("parse_response_frame", 0, 0, f) : f \in RawFrames \cup CutFrames}

NoCall == CodecCall("none", 0, 0, <<>>)
CodecLoc == [buf |-> <<>>, orig |-> <<>>]

\* The cross-codec fixture of the round-trip test: response header in place
\* of the command header, checksum recomputed.
Rehead(frame) ==
    LET body == SubSeq([frame EXCEPT ![1] = ACK_HEADER], 1, Len(frame) - 1)
    IN body \o <<calculate_checksum(body)>>

SessionIdle ==
    /\ serial = ClosedPort
    /\ in_boot2 = FALSE
    /\ reset_pin = "rts+dtr"
    /\ rx = <<>>
    /\ trace = <<>>
    /\ env = [stream |-> <<>>]

CodecInit ==
    /\ SessionIdle
    /\ pc = "codec_call"
    /\ call \in EncodeCalls \cup DecodeCalls
    /\ loc = CodecLoc
    /\ outcome = NoOutcome

CodecEncode ==
    /\ pc = "codec_call"
    /\ call.op = "create_command_frame"
    /\ outcome' = create_command_frame(call.cmd, call.addr, call.data)
    /\ pc' = "codec_encoded"
    /\ UNCHANGED <<serial, in_boot2, reset_pin, rx, trace, call, loc, env>>

CodecRehead ==
    /\ pc = "codec_encoded"
    /\ outcome.status = "ok"
    /\ loc' = [loc EXCEPT !.buf = Rehead(outcome.value)]
    /\ pc' = "codec_reheaded"
    /\ UNCHANGED <<serial, in_boot2, reset_pin, rx, trace, call, outcome, env>>

CodecDecode ==
    /\ \/ pc = "codec_call" /\ call.op = "parse_response_frame"
          /\ loc' = [loc EXCEPT !.buf = call.data]
       \/ pc = "codec_reheaded" /\ loc' = loc
    /\ outcome' = parse_response_frame(loc'.buf)
    /\ pc' = "codec_decoded"
    /\ UNCHANGED <<serial, in_boot2, reset_pin, rx, trace, call, env>>

\* The buffer with bit `bit` of its byte k inverted.
FlipBit(frame, k, bit) ==
    [frame EXCEPT ![k] = IF Bit(frame[k], bit) = 1 THEN frame[k] - 2 ^ bit
                                                   ELSE frame[k] + 2 ^ bit]

\* A buffer that parse_response_frame accepted comes in again with one bit
\* inverted, and is parsed.
CodecDecodeFlipped ==
    /\ pc = "codec_decoded"
    /\ outcome.status = "ok"
    /\ \E k \in 1..Len(loc.buf), bit \in 0..7 :
        /\ loc' = [buf |-> FlipBit(loc.buf, k, bit), orig |-> loc.buf]
        /\ outcome' = parse_response_frame(loc'.buf)
    /\ pc' = "codec_flip_decoded"
    /\ UNCHANGED <<serial, in_boot2, reset_pin, rx, trace, call, env>>

CodecNext == CodecEncode \/ CodecRehead \/ CodecDecode \/ CodecDecodeFlipped

SpecCodec == CodecInit /\ [][CodecNext]_vars

(***************************************************************************)
(* Claims about the codec (checked under SpecCodec)                         *)
(***************************************************************************)
\* C1: for a payload of n <= 64 bytes create_command_frame returns exactly
\* n+6 bytes: 0x5A, cmd, addr high, addr low, n, the payload in order, and
\* the XOR of the n+5 bytes before; nothing of the 70-byte buffer follows.
C1_FrameLayout ==
    (pc = "codec_encoded" /\ Len(call.data) <= 64) =>
        LET n == Len(call.data)
            f == outcome.value
        IN /\ outcome.status = "ok"
           /\ Len(f) = n + 6
           /\ f[1] = 90
           /\ f[2] = call.cmd
           /\ f[3] = call.addr \div 256
           /\ f[4] = call.addr % 256
           /\ f[5] = n
           /\ \A i \in 1..n : f[5 + i] = call.data[i]
           /\ f[n + 6] = XorOfBytes(SubSeq(f, 1, n + 5))

C1_Witness ==
    /\ pc = "codec_encoded"
    /\ Len(call.data) = 64
    /\ call.cmd = CMD_WRITE
    /\ call.addr = 4660
    /\ Len(outcome.value) = 70
\* C2: parse_response_frame rejects, in this order of precedence, a buffer
\* of fewer than 6 bytes (FrameTooShort), a first byte other than 0xA5
\* (BadHeader), a last byte that is not the XOR of the bytes before it
\* (ChecksumMismatch), a length byte with 5 + length + 1 beyond the buffer
\* (LengthMismatch); otherwise it returns byte 1, byte 2 * 256 + byte 3 and
\* the length-byte many bytes from offset 5.  The session state stays as it was.
C2_DecodePrecedence ==
    pc = "codec_decoded" =>
        LET b == loc.buf
            n == Len(b)
            short == n < 6
            header == ~short /\ b[1] # 165
            checksum == ~short /\ ~header /\ XorOfBytes(SubSeq(b, 1, n - 1)) # b[n]
            length == ~short /\ ~header /\ ~checksum /\ 5 + b[5] + 1 > n
        IN /\ short => outcome = Err("FrameTooShort")
           /\ header => outcome = Err("BadHeader")
           /\ checksum => outcome = Err("ChecksumMismatch")
           /\ length => outcome = Err("LengthMismatch")
           /\ (~short /\ ~header /\ ~checksum /\ ~length) =>
                 /\ outcome.status = "ok"
                 /\ outcome.value.cmd = b[2]
                 /\ outcome.value.addr = b[3] * 256 + b[4]
                 /\ outcome.value.data = [i \in 1..b[5] |-> b[5 + i]]
           /\ SessionIdle

\* A buffer with a wrong checksum and too large a length byte: the checksum
\* is reported.
C2_Witness ==
    /\ pc = "codec_decoded"
    /\ call.op = "parse_response_frame"
    /\ Len(loc.buf) >= 6
    /\ loc.buf[1] = ACK_HEADER
    /\ 5 + loc.buf[5] + 1 > Len(loc.buf)
    /\ outcome = Err("ChecksumMismatch")

\* C3: a command frame of 0..64 payload bytes, given the response header and
\* a recomputed checksum, is parsed back to the same command, address and
\* payload.
C3_RoundTrip ==
    (pc = "codec_decoded" /\ call.op = "create_command_frame") =>
        outcome = Ok(Response(call.cmd, call.addr, call.data))

C3_Witness ==
    /\ pc = "codec_decoded"
    /\ call.op = "create_command_frame"
    /\ Len(call.data) = MAX_DATA_SIZE
    /\ call.addr = 4660
    /\ outcome.status = "ok"
    /\ outcome.value.addr = 4660

\* The position of the byte in which the flipped buffer differs.
FlippedAt == CHOOSE k \in 1..Len(loc.buf) : loc.buf[k] # loc.orig[k]

\* C22 as stated: whatever bit of an accepted response frame is inverted,
\* the frame is rejected with ChecksumMismatch, unless the bit is in the
\* checksum byte and the frame is accepted.
C22_AnyFlipIsChecksumMismatch ==
    pc = "codec_flip_decoded" =>
        \/ outcome = Err("ChecksumMismatch")
        \/ FlippedAt = Len(loc.buf) /\ outcome.status = "ok"

\* C22 as amended: an inverted bit in the first byte is rejected with
\* BadHeader, an inverted bit in any other byte, the checksum byte included,
\* with ChecksumMismatch; no flipped frame is accepted.
C22_FlipRejected ==
    pc = "codec_flip_decoded" =>
        /\ Len(loc.buf) = Len(loc.orig)
        /\ Cardinality({k \in 1..Len(loc.buf) : loc.buf[k] # loc.orig[k]}) = 1
        /\ parse_response_frame(loc.orig).status = "ok"
        /\ outcome = IF FlippedAt = 1 THEN Err("BadHeader")
                                      ELSE Err("ChecksumMismatch")

\* A bit of the length byte was inverted so that the frame declares more
\* bytes than it has, and was rejected for its checksum.
C22_Witness ==
    /\ pc = "codec_flip_decoded"
    /\ FlippedAt = 5
    /\ Len(loc.buf) < 5 + loc.buf[5] + 1
    /\ outcome = Err("ChecksumMismatch")

\* A bit of the checksum byte was inverted.
C22_WitnessChecksumByte ==
    /\ pc = "codec_flip_decoded"
    /\ FlippedAt = Len(loc.buf)
    /\ outcome = Err("ChecksumMismatch")

(***************************************************************************)
(* SpecRead: the polling loop of read_with_timeout, with the bytes of the   *)
(* target arriving while it runs.  Time is counted in milliseconds since    *)
(* start_time.                                                              *)
(***************************************************************************)
ReadCall(size, timeout, stream) ==
    [op |-> "read_with_timeout", size |-> size, timeout |-> timeout, stream |-> stream]

\* data and the clock reading time.time() - start_time; intime counts the
\* bytes that reached the port while the clock read less than the timeout.
ReadLocals(data, now, intime) == [data |-> data, now |-> now, intime |-> intime]

\* The response that send_command reads with read_with_timeout(FRAME_SIZE,
\* timeout) after a write command of one byte: six bytes, the target's
\* correct acknowledgement.
WriteAck == TargetAnswer(WireFrame(CMD_WRITE, HANDSHAKE_ADDR, Pattern(1)))

\* The calls: a few bytes asked for from a short stream, with none or one of
\* its bytes there at the start; and the read of send_command, with none or
\* all of the acknowledgement there at the start.
ReadInit ==
    /\ serial = OpenPort(BOOT2_BAUDRATE)
    /\ in_boot2 \in BOOLEAN
    /\ reset_pin = "rts+dtr"
    /\ trace = <<>>
    /\ pc = "read_loop"
    /\ outcome = NoOutcome
    /\ \/ \E size \in 0..MaxReadSize, timeout \in 0..MaxTimeout,
             n \in 0..(MaxReadSize + 1), k \in 0..1 :
            /\ call = ReadCall(size, timeout, Pattern(n))
            /\ loc = ReadLocals(<<>>, 0, IF timeout > 0 THEN Min(k, n) ELSE 0)
            /\ rx = SubSeq(Pattern(n), 1, Min(k, n))
            /\ env = [stream |-> SubSeq(Pattern(n), Min(k, n) + 1, n)]
       \/ \E timeout \in 1..MaxTimeout, k \in {0, Len(WriteAck)} :
            /\ call = ReadCall(FRAME_SIZE, timeout, WriteAck)
            /\ loc = ReadLocals(<<>>, 0, k)
            /\ rx = SubSeq(WriteAck, 1, k)
            /\ env = [stream |-> SubSeq(WriteAck, k + 1, Len(WriteAck))]

\* The next byte of the target reaches the input buffer of the port.
ReadArrive ==
    /\ pc \in {"read_loop", "read_sleep"}
    /\ env.stream # <<>>
    /\ rx' = Append(rx, Head(env.stream))
    /\ env' = [env EXCEPT !.stream = Tail(env.stream)]
    /\ loc' = [loc EXCEPT !.intime = IF loc.now < call.timeout THEN @ + 1 ELSE @]
    /\ UNCHANGED <<serial, in_boot2, reset_pin, trace, pc, call, outcome>>

\* A buggy variant: everything waiting is read, whatever the size asked for.
ReadIterationUncapped ==
    /\ pc = "read_loop"
    /\ IF Len(loc.data) < call.size /\ loc.now < call.timeout
       THEN IF Len(rx) > 0
            THEN /\ loc' = [loc EXCEPT !.data = loc.data \o rx]
                 /\ rx' = <<>>
                 /\ pc' = "read_loop"
                 /\ outcome' = outcome
            ELSE /\ pc' = "read_sleep"
                 /\ UNCHANGED <<loc, rx, outcome>>
       ELSE /\ pc' = "read_done"
            /\ outcome' = Ok(loc.data)
            /\ UNCHANGED <<loc, rx>>
    /\ UNCHANGED <<serial, in_boot2, reset_pin, trace, call, env>>

\* One evaluation of the loop condition and, when it holds, of the test of
\* in_waiting: a read of min(in_waiting, size - len(data)) bytes, or the
\* start of the sleep; when it does not hold, the return of data.
ReadIteration ==
    /\ pc = "read_loop"
    /\ IF Len(loc.data) < call.size /\ loc.now < call.timeout
       THEN IF Len(rx) > 0
            THEN LET n == Min(Len(rx), call.size - Len(loc.data))
                 IN /\ loc' = [loc EXCEPT !.data = loc.data \o SubSeq(rx, 1, n)]
                    /\ rx' = SubSeq(rx, n + 1, Len(rx))
                    /\ pc' = "read_loop"
                    /\ outcome' = outcome
            ELSE /\ pc' = "read_sleep"
                 /\ UNCHANGED <<loc, rx, outcome>>
       ELSE /\ pc' = "read_done"
            /\ outcome' = Ok(loc.data)
            /\ UNCHANGED <<loc, rx>>
    /\ UNCHANGED <<serial, in_boot2, reset_pin, trace, call, env>>

\* time.sleep(0.001) returns: at least a millisecond has passed (readings
\* beyond the timeout are all alike to the loop and kept at timeout + 1).
ReadWake ==
    /\ pc = "read_sleep"
    /\ \E d \in 1..2 :
        loc' = [loc EXCEPT !.now = Min(loc.now + d, call.timeout + 1)]
    /\ pc' = "read_loop"
    /\ UNCHANGED <<serial, in_boot2, reset_pin, rx, trace, call, outcome, env>>

ReadNext == ReadArrive \/ ReadIteration \/ ReadWake

\* The loop is a running thread: its iterations and the end of its sleeps
\* are not postponed for ever.
SpecRead ==
    /\ ReadInit
    /\ [][ReadNext]_vars
    /\ WF_vars(ReadIteration)
    /\ WF_vars(ReadWake)

(***************************************************************************)
(* Claims about read_with_timeout (checked under SpecRead)                  *)
(***************************************************************************)
\* What read_with_timeout returns: never more than size bytes, the first of
\* the bytes that arrived, in their order and with the rest left waiting;
\* fewer than size bytes only when the timeout has passed.
ReadReturnsAsClaimed ==
    pc = "read_done" =>
        /\ outcome = Ok(loc.data)
        /\ Len(outcome.value) <= call.size
        /\ outcome.value \o rx \o env.stream = call.stream
        /\ Len(outcome.value) < call.size => loc.now >= call.timeout

\* An iteration entered before the timeout with size bytes arrived in all
\* completes data to exactly size bytes, which the next iteration returns.
ReadCompletes ==
    /\ (pc = "read_loop" /\ loc.now < call.timeout
        /\ Len(loc.data) < call.size /\ Len(loc.data) + Len(rx) >= call.size
        /\ env' = env) => Len(loc'.data) = call.size
    /\ (pc = "read_loop" /\ Len(loc.data) = call.size /\ pc' # pc) =>
         (pc' = "read_done" /\ outcome' = Ok(loc.data))

\* C26 as stated, for the value returned: never more than size bytes;
\* exactly size bytes when that many arrived before the timeout; otherwise
\* the bytes that arrived before the timeout, in arrival order.
C26_ReturnsWhatArrivedInTime ==
    pc = "read_done" =>
        /\ Len(outcome.value) <= call.size
        /\ outcome.value =
             SubSeq(call.stream, 1, Min(call.size, loc.intime))

\* C26 as amended: read_with_timeout(size, timeout) terminates; it never
\* returns more than size bytes; once size bytes are there at an iteration of
\* the loop made before the timeout it returns exactly size bytes; otherwise
\* it returns after the timeout the bytes collected so far, possibly none,
\* in arrival order; a byte that arrives during the last sleep of the loop
\* stays in the input buffer.
C26_ReadWithTimeout ==
    /\ []ReadReturnsAsClaimed
    /\ [][ReadCompletes]_vars
    /\ <>(pc = "read_done")

\* Two bytes were asked for, one had arrived when the timeout passed, and it
\* was returned.
C26_Witness ==
    /\ pc = "read_done"
    /\ call.size = 2 /\ call.timeout > 0
    /\ Len(call.stream) >= 1
    /\ outcome = Ok(<<call.stream[1]>>)
    /\ loc.now >= call.timeout

\* One byte was asked for, it arrived during the last sleep before the
\* timeout, and nothing was returned.
C26_WitnessLeftWaiting ==
    /\ pc = "read_done"
    /\ call.size = 1 /\ loc.intime = 1
    /\ outcome = Ok(<<>>)
    /\ Len(rx) >= 1

\* Two bytes were asked for and returned before the timeout, a third is left
\* waiting.
C26_WitnessFull ==
    /\ pc = "read_done"
    /\ call.size = 2 /\ Len(outcome.value) = 2
    /\ loc.now < call.timeout
    /\ Len(rx) = 1

(***************************************************************************)
(* SpecTester: one run of the test uploader (stm8_bootloader_test.py) from  *)
(* the opened port: the image file is read, the ready marker awaited, the   *)
(* image sent block by block.                                               *)
(***************************************************************************)
TESTER_CHUNK_SIZE == 128

\* A buggy variant: the bytes of a block keep their order.
reverse_bytes_within_chunks_kept(data, chunk_size) == data

\* reverse_bytes_within_chunks(data, chunk_size), len(data) a multiple of
\* chunk_size.
reverse_bytes_within_chunks(data, chunk_size) ==
    [i \in 1..Len(data) |->
        data[((i - 1) \div chunk_size) * chunk_size + chunk_size - ((i - 1) % chunk_size)]]

\* The image files: whole blocks, none, and one that is not whole blocks.
TesterImages == {Pattern(TESTER_CHUNK_SIZE * k) : k \in 0..MaxBlocks} \cup {Pattern(1)}

TesterCall(data, stream) == [op |-> "run", data |-> data, stream |-> stream]

TesterLocals(buffer, i, success_count, fail_count) ==
    [buffer |-> buffer, i |-> i, success_count |-> success_count, fail_count |-> fail_count]

TesterInit ==
    /\ serial = OpenPort(BOOT1_BAUDRATE)
    /\ in_boot2 = FALSE
    /\ reset_pin = "none"
    /\ rx = <<>>
    /\ trace = <<>>
    /\ pc = "tester_read_file"
    /\ loc = TesterLocals(<<>>, 0, 0, 0)
    /\ outcome = NoOutcome
    /\ \E data \in TesterImages, st \in Streams :
        /\ call = TesterCall(data, st)
        /\ env = [stream |-> st]

\* The return of run(): the result, and close_serial in the finally clause.
TesterReturn(result, events) ==
    /\ pc' = "done"
    /\ outcome' = Ok(result)
    /\ serial' = ClosedPort
    /\ trace' = trace \o events \o <<Ev("close", "run", <<>>)>>

\* read_bin_file: no data, or a size that is not a multiple of 128, ends
\* the run.
TesterReadFile ==
    /\ pc = "tester_read_file"
    /\ IF Len(call.data) = 0 \/ Len(call.data) % TESTER_CHUNK_SIZE # 0
       THEN TesterReturn(FALSE, <<>>)
       ELSE /\ pc' = "tester_wait"
            /\ UNCHANGED <<serial, trace, outcome>>
    /\ UNCHANGED <<in_boot2, reset_pin, rx, call, loc, env>>

\* The MCU sends its next byte.
TesterEmit ==
    /\ pc = "tester_wait"
    /\ env.stream # <<>>
    /\ rx' = Append(rx, Head(env.stream))
    /\ env' = [env EXCEPT !.stream = Tail(env.stream)]
    /\ UNCHANGED <<serial, in_boot2, reset_pin, trace, pc, call, loc, outcome>>

\* wait_for_mcu_ready, one read: the bytes waiting are added to the buffer;
\* if it ends with 0x00 0x0D the wait is over, else its last byte is kept.
TesterWaitPoll ==
    /\ pc = "tester_wait"
    /\ rx # <<>>
    /\ LET buffer == loc.buffer \o rx
       IN /\ trace' = Append(trace, Ev("read", "wait_for_mcu_ready", rx))
          /\ IF LastN(buffer, 2) = <<0, 13>>
             THEN /\ pc' = "tester_send"
                  /\ loc' = TesterLocals(buffer, Len(call.data) \div TESTER_CHUNK_SIZE - 1, 0, 0)
             ELSE /\ pc' = "tester_wait"
                  /\ loc' = [loc EXCEPT !.buffer = LastN(buffer, 1)]
    /\ rx' = <<>>
    /\ UNCHANGED <<serial, in_boot2, reset_pin, call, outcome, env>>

\* wait_for_mcu_ready: the timeout passes.
TesterWaitTimeout ==
    /\ pc = "tester_wait"
    /\ TesterReturn(FALSE, <<>>)
    /\ UNCHANGED <<in_boot2, reset_pin, rx, call, loc, env>>

\* send_bootloader_reverse, one iteration: block i of the image reversed
\* within its blocks is written, one byte is read, and is counted as a
\* confirmation if it is 0x00, as a failure if it is another byte or none.
TesterSendBlock ==
    /\ pc = "tester_send"
    /\ loc.i >= 0
    /\ LET reversed_data == reverse_bytes_within_chunks(call.data, TESTER_CHUNK_SIZE)
           chunk == SubSeq(reversed_data, loc.i * TESTER_CHUNK_SIZE + 1,
                           (loc.i + 1) * TESTER_CHUNK_SIZE)
       IN \E ack \in {<<>>, <<0>>, <<1>>} :
            /\ trace' = trace \o <<Ev("write", "send_bootloader_reverse", chunk),
                                   Ev("read", "send_bootloader_reverse", ack)>>
            /\ loc' = [loc EXCEPT !.i = @ - 1,
                                  !.success_count = IF ack = <<0>> THEN @ + 1 ELSE @,
                                  !.fail_count = IF ack = <<0>> THEN @ ELSE @ + 1]
    /\ UNCHANGED <<serial, in_boot2, reset_pin, rx, pc, call, outcome, env>>

\* send_bootloader_reverse returns fail_count == 0, and run returns.
TesterSendEnd ==
    /\ pc = "tester_send"
    /\ loc.i < 0
    /\ TesterReturn(loc.fail_count = 0, <<>>)
    /\ UNCHANGED <<in_boot2, reset_pin, rx, call, loc, env>>

TesterNext ==
    \/ TesterReadFile
    \/ TesterEmit
    \/ TesterWaitPoll
    \/ TesterWaitTimeout
    \/ TesterSendBlock
    \/ TesterSendEnd

SpecTester == TesterInit /\ [][TesterNext]_vars

(***************************************************************************)
(* Claims about the test uploader (checked under SpecTester)                *)
(***************************************************************************)
BlockWrites == {w \in EventsAt("write") : trace[w].by = "send_bootloader_reverse"}
BlocksOf(data) == Len(data) \div 128

\* Block b (from 0) of the image, its bytes in reverse order.
BlockReversed(data, b) ==
    [j \in 1..128 |-> data[b * 128 + 128 + 1 - j]]

\* The blocks are written only after the bytes received end with the marker,
\* each of 128 bytes, the last block of the image first.
BlocksLastToFirst ==
    /\ BlockWrites # {} =>
         MarkerAtEnd(SubSeq(call.stream, 1, Len(call.stream) - Len(env.stream)))
    /\ \A w \in BlockWrites :
         LET k == Cardinality({v \in BlockWrites : v <= w})
         IN /\ k <= BlocksOf(call.data)
            /\ trace[w].data = BlockReversed(call.data, BlocksOf(call.data) - k)
            /\ trace[w + 1].op = "read"

\* C29: once the marker is received the image is sent in blocks of 128 bytes
\* from the last to the first, and the blocks counted as sent are those the
\* MCU answered with the byte 0x01; the transfer succeeds when all are.
C29_BlockAckedByOne ==
    /\ BlocksLastToFirst
    /\ pc \in {"tester_send", "done"} =>
         loc.success_count =
             Cardinality({w \in BlockWrites : trace[w + 1].data = <<1>>})
    /\ (pc = "done" /\ Cardinality(BlockWrites) = BlocksOf(call.data)
        /\ BlockWrites # {}) =>
         outcome = Ok(\A w \in BlockWrites : trace[w + 1].data = <<1>>)

\* What the code does: the blocks counted as sent are those answered with
\* 0x00.
C29_BlockAckedByZero ==
    /\ BlocksLastToFirst
    /\ pc \in {"tester_send", "done"} =>
         loc.success_count =
             Cardinality({w \in BlockWrites : trace[w + 1].data = <<0>>})
    /\ (pc = "done" /\ BlockWrites # {}) =>
         outcome = Ok(\A w \in BlockWrites : trace[w + 1].data = <<0>>)

\* Two blocks were sent and each answered with 0x01.
C29_WitnessAckedByOne ==
    /\ pc = "done"
    /\ Cardinality(BlockWrites) = 2
    /\ \A w \in BlockWrites : trace[w + 1].data = <<1>>
    /\ outcome = Ok(FALSE)

(***************************************************************************)
(* Further claims about the codec (checked under SpecCodec)                 *)
(***************************************************************************)
\* C33: a buffer accepted by parse_response_frame has exactly
\* 5 + length byte + 1 bytes, and the payload returned is what lies between
\* the length byte and the checksum byte; with more bytes the buffer is
\* rejected.
C33_AcceptedHasExactLength ==
    (pc = "codec_decoded" /\ outcome.status = "ok") =>
        /\ Len(loc.buf) = 5 + loc.buf[5] + 1
        /\ outcome.value.data = SubSeq(loc.buf, 6, Len(loc.buf) - 1)

\* What holds: an accepted buffer has at least 5 + length byte + 1 bytes, its
\* last byte is the XOR of all the others, and the payload returned is the
\* length byte many bytes after the length byte.
C33_AcceptedHasLengthAtLeast ==
    (pc = "codec_decoded" /\ outcome.status = "ok") =>
        /\ Len(loc.buf) >= 5 + loc.buf[5] + 1
        /\ loc.buf[Len(loc.buf)] = XorOfBytes(SubSeq(loc.buf, 1, Len(loc.buf) - 1))
        /\ outcome.value.data = SubSeq(loc.buf, 6, 5 + loc.buf[5])

\* A buffer one byte longer than its length byte declares was accepted.
C33_WitnessLonger ==
    /\ pc = "codec_decoded" /\ outcome.status = "ok"
    /\ Len(loc.buf) = 5 + loc.buf[5] + 2

(***************************************************************************)
(* The two uploaders compared (checked under SpecTester)                    *)
(***************************************************************************)
\* The bytes the test uploader has written, in the order of the writes, up
\* to trace position hi.
RECURSIVE TesterWritten(_)
TesterWritten(hi) ==
    IF hi = 0 THEN <<>>
    ELSE TesterWritten(hi - 1)
         \o (IF trace[hi].op = "write" /\ trace[hi].by = "send_bootloader_reverse"
             THEN trace[hi].data ELSE <<>>)

\* The bytes send_boot2_binary writes for the same image file.
LoaderWritten(data) ==
    LET s == send_boot2_binary(ImageFile(TRUE, data))
    IN IF s.sent THEN s.events[Len(s.events)].data ELSE <<>>

\* C35: for an image whose length is a multiple of 128 the bytes written by
\* the test uploader, block after block, are the bytes send_boot2_binary
\* writes in one write: the image reversed as a whole.  The test uploader
\* writes them 128 at a time and reads an answer after each block.
C35_SameByteStream ==
    (pc = "tester_send" /\ loc.i < 0) =>
        /\ Len(call.data) % 128 = 0
        /\ TesterWritten(Len(trace)) = LoaderWritten(call.data)
        /\ \A w \in BlockWrites :
             /\ Len(trace[w].data) = 128
             /\ trace[w + 1].op = "read"

\* Two blocks were written, and the image is not its own reversal.
C35_Witness ==
    /\ pc = "tester_send" /\ loc.i < 0
    /\ Cardinality(BlockWrites) = 2
    /\ Len(TesterWritten(Len(trace))) = 256
    /\ TesterWritten(Len(trace)) # call.data
    /\ TesterWritten(Len(trace))[1] = call.data[256]

\* The reads of wait_for_mcu_ready, and the read at which it found the
\* marker: the last of them, after which the wait is over and the blocks are
\* sent.
TesterWaitReads == {i \in EventsAt("read") : trace[i].by = "wait_for_mcu_ready"}

TesterDetectsAt(i) ==
    /\ \A j \in TesterWaitReads : j <= i
    /\ \/ i = Len(trace) /\ pc = "tester_send"
       \/ i < Len(trace) /\ trace[i + 1].op = "write"

\* C36: on the same stream split into the same reads, the windowed wait of
\* the loader, which tests the last two of all bytes accumulated, and the
\* wait of the test uploader, which keeps one byte between reads, find the
\* marker at the same read, or neither finds it.
C36_SameDetection ==
    \A i \in TesterWaitReads :
        windowed_match(ReadFromTo(1, i), trace[i].data) <=> TesterDetectsAt(i)

\* 0x00 came in one read and 0x0D in the next, after other bytes, and both
\* waits find the marker at that read.
C36_Witness ==
    \E i \in TesterWaitReads :
        /\ i >= 3
        /\ trace[i - 1].data = <<0>> /\ trace[i].data = <<13>>
        /\ TesterDetectsAt(i)
        /\ windowed_match(ReadFromTo(1, i), trace[i].data)

\* A marker followed by another byte in the same read is found by neither.
C36_WitnessNeither ==
    /\ pc = "done" /\ BlockWrites = {}
    /\ \E i \in TesterWaitReads :
        /\ MarkerIn(trace[i].data)
        /\ ~TesterDetectsAt(i)
        /\ ~windowed_match(ReadFromTo(1, i), trace[i].data)


(***************************************************************************)
(* Further claims about main (checked under SpecMain)                       *)
(***************************************************************************)
\* main has returned after loader.open().
MainReturned == call.op = "main" /\ pc = "exit" /\ EventsAt("open") # {}

\* C37: on every path by which main returns after the serial port was
\* opened (normal completion, failed upload, failed command, user interrupt,
\* exception inside the upload or a command) the port has been closed.
C37_ClosedOnEveryReturn == MainReturned => ~serial.open

\* The paths on which main does call loader.close(): normal completion,
\* failed upload and failed command.
C37_ClosedUnlessInterrupted ==
    (MainReturned /\ call.stage # "interrupted") => ~serial.open

\* main was interrupted after a successful probe and has returned 1 with the
\* port open.
C37_WitnessInterrupted ==
    /\ MainReturned /\ call.stage = "interrupted"
    /\ ProbeDone /\ InitialProbeSucceeded
    /\ outcome = Ok(1)
    /\ serial.open


(***************************************************************************)
(* The read of a response by send_command (checked under SpecRead)          *)
(***************************************************************************)
\* data is a complete response frame: 5 + length byte + 1 bytes.
CompleteFrame(data) == Len(data) >= 5 /\ Len(data) = 5 + data[5] + 1

ResponseRead == call.op = "read_with_timeout" /\ call.size = FRAME_SIZE

\* C38: send_command with a response expected returns as soon as a complete
\* response frame (5 + length byte + 1 bytes) has been received: holding a
\* complete frame shorter than 70 bytes, the read neither sleeps nor polls
\* on until 70 bytes have arrived or the timeout has passed.
C38_ReturnsOnCompleteFrame ==
    (ResponseRead /\ CompleteFrame(loc.data)) => pc # "read_sleep"

\* What the loop does: a response shorter than 70 bytes is returned only
\* once the timeout has passed.
C38_ShortFrameWaitsForTimeout ==
    (ResponseRead /\ pc = "read_done" /\ Len(outcome.value) < FRAME_SIZE) =>
        loc.now >= call.timeout

\* The whole acknowledgement was read at the first iteration and was
\* returned after the timeout.
C38_WitnessWaited ==
    /\ ResponseRead /\ pc = "read_done"
    /\ outcome = Ok(WriteAck)
    /\ loc.intime = Len(WriteAck)
    /\ loc.now >= call.timeout

====
